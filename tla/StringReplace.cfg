SPECIFICATION StringSpec
CONSTANTS
    Letters = {"a", "A"}
    MaxText = 4
    GrowFinds = {1, 2}
INVARIANT StringFits
