SPECIFICATION Spec
CONSTANTS
    PACKET_N_DATA_BYTES_MAX = 120
    max_image_bytes <- MCMaxImageBytes
    MODULE_X_SIZE <- MCModuleX
    MODULE_Y_SIZE <- MCModuleY
    Configs <- MCConfigs
INVARIANTS
    FrameIsTiled
    GigafrostImageIsWhole
    OwnRectangle
    PartsTile
CHECK_DEADLOCK FALSE
