\* Three menu entries, any answers of the two addresses.
SPECIFICATION PackagesSpec
CONSTANTS
    Kernels = {"linux", "linux-cachyos"}
    Cachy = {"linux-cachyos"}
    Desktops = {"kde", "xfce", "sway"}
    Wayland = {"sway"}
    DisplayManagers = {"lightdm", "sddm"}
    Rank <- MCRank
    ManagerOf <- MCManagerOf
    DriverProfiles = {"amd", "nvidia"}
    Fitting = {"amd", "fallback"}
    Nothing = Nothing
    MaxEntries = 3
INVARIANTS
    KernelKit
    DisplayManagerInstalled
CHECK_DEADLOCK FALSE
