SPECIFICATION Spec
CONSTANTS
    Devices = {cpu0, cpu1, gpu}
    Readings <- Edges
    Modulus = 128
    Signed = 64
    TextMax = 100
INVARIANTS
    TotalsAgree
