SPECIFICATION Spec
CONSTANTS
    Encodings <- MCCropCover
    Seeds <- MCSeeds
    MaxPixel = 6
PROPERTIES
    Finishes
CHECK_DEADLOCK FALSE
