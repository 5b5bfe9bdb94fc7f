SPECIFICATION Spec
CONSTANTS
    c = c  p = p  d = d  m = m  n = n  cStar = cStar  pStar = pStar
    Keys <- MCKeys
    Uids <- MCUids
    RType <- MCRType
    Starred <- MCStarred
    Native = {n}
    TaggedKeys = {c}
    OwnerKeys <- MCOwnerKeys
    ObjectsOf <- MCObjectsOf
    Null = Null
    VariableValues = {}
    ControllerShape <- MCControllerShape
    CustomTypes = {"map"}
    FieldMask = {}
    end_state_checker_mask <- MCMask
    state_update_summary_checker_mask = {}
    SuiteKeys = {m, p}
    SuiteHolds <- MCSuiteHolds
    Settings = {{}, {"summary", "state"}}
    MaxEvents <- MCMaxEvents
    SIEVE_LEARN_VALUE_MASK = SIEVE_LEARN_VALUE_MASK
    NoObject = NoObject
    NoFile = NoFile
INVARIANTS StateIsLive FirstRunAccepted AgreementUnlessAlarm SafetyAlarmExact FamilyIsClosed
PROPERTY OracleEnds
