SPECIFICATION Spec
CONSTANTS
    OSType <- Linux
    SubnetMode = FALSE
    GpuSKUs <- MCGpuSKUs
    SecretStore <- MCSecretStore
    PodSpecs <- ResourcePods
INVARIANT RequestsMatchSpec
\* CreatePod returns: each behaviour is one call of the handler.
CHECK_DEADLOCK FALSE
