SPECIFICATION Spec
CONSTANTS
    OSType <- Linux
    SubnetMode = FALSE
    GpuSKUs <- MCGpuSKUs
    SecretStore <- MCSecretStore
    PodSpecs <- PortPods
INVARIANT ExposedPortsMatch
\* CreatePod returns: each behaviour is one call of the handler.
CHECK_DEADLOCK FALSE
