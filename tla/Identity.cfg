SPECIFICATION Spec
CONSTANTS
    Human = {"ann", "bob"}
    NoOne = "none"
    Group = {"ops", "admins"}
    Config <- MCConfig
    Update <- MCUpdate
    Login = {1, 2}
    Jti = {1}
    Request = {"q"}
    MaxSource = 3
    MaxConfigs = 1
    MaxEpoch = 3
    Approver = {"bob"}
    Asked = {{}, {"Operator"}}
INVARIANTS ReceiptsAgree ManagedAdmission
PROPERTIES NoRevival EndIsFinal
CHECK_DEADLOCK FALSE
