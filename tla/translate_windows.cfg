SPECIFICATION Spec
CONSTANTS
    OSType <- WindowsOS
    SubnetMode = FALSE
    GpuSKUs <- MCGpuSKUs
    SecretStore <- MCSecretStore
    PodSpecs <- WindowsPods
INVARIANT MountsReferToVolumes
\* CreatePod returns: each behaviour is one call of the handler.
CHECK_DEADLOCK FALSE
