SPECIFICATION Spec
CONSTANTS
    MaxRuns = 2
    MaxRestarts = 0
    WaitPolls = 2
    Faults <- NoDevices
PROPERTIES
    PublishedPidRunning
