\* Four settings in any order, with and without a base.
SPECIFICATION Spec
CONSTANTS
    Hosts = {"cachyos", "box"}
    Locales = {"ca_ES", "ca_ES@valencia"}
    Layouts = {"us"}
    Zones = {"UTC"}
    Passwords = {"secret"}
    Extensions <- MCExtensions
    Users = {"ann", "bob"}
    Shells = {"zsh", "bash"}
    Configured = {"zsh"}
    Groups <- MCGroups
    Managers = {"lightdm", "sddm"}
    Commented = {"lightdm"}
    None = None
    MaxCalls = 4
INVARIANTS
    LocaleGenerated
    AutologinOneUser
PROPERTY
    AccountKept
CHECK_DEADLOCK FALSE
