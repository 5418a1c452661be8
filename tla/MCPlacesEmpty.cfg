SPECIFICATION Spec
CONSTANTS
    Samples <- MCSamples
    BufferCount = 5
    Readings <- MCReadings
    PlaceCounts = {0, 1, 2}
INVARIANT EmptyPlacesAnswer
