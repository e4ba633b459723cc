SPECIFICATION Spec
CONSTANTS
    XDots = 4
    YDots = 4
    Colors = 4
    MaxBits = 4
    ByteBits = 2
    PacketSize = 4
    BarEvery = 2
    FreePixels = 2
    Pictures <- MCPictures
    LowBits <- MCLowBits
    Skips = {0, 2}
    MaxSaves = 2
INVARIANTS
    CodecInv
    PictureLoaded
    ScreenRestored
