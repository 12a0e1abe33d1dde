CONSTANTS
    IsSchemaDocument <- IsSchema
    InstanceAccepted <- Accepts
    SameJson <- Same
    Alike <- Exact
    AsDouble <- MCAsDouble
    ExtraBytes <- TestExtraBytes
    Matches <- Compared
    PreprocessOf <- LoadPreprocessConfig
    PostprocessOf <- LoadPostprocessConfig
    SessionOf <- LoadSession
    Inference <- RunLoaded
    Shape <- ShapeOf
    IsRectangular <- Rectangular
    LeavesOf <- Leaves
    Unflattened <- Nested
    Held <- MCHeld
    KeyTexts <- TestKeyTexts
    Stoi <- TestStoi
    Spoken <- SpokenOf
    Documents <- TestDocuments
    Depth <- DepthOf
    CaseInputs <- MCCaseInputs
    CaseExpected <- MCCaseExpected
    Packages <- TestPackages
    Replacements <- TestReplacements
    MaxChanges = 1
    Builds = {"stub", "onnxruntime"}
    Inputs <- TestInputs
SPECIFICATION Spec
INVARIANTS
    TypeOK
    AcceptedRunsItsGoldenCases
    ThrowsOnlyOnText
    SchemaVerdictIsStandard
    PredictionsAreTheBest
    NestingRestoresTensors
    IdentityKeepsTheTensor
CHECK_DEADLOCK FALSE
