\* Two assets, collection ids 0..2.
CONSTANTS
    a1 = a1
    a2 = a2
    NoValue = NoValue
    Assets <- MCAssets
    MaxCollectionId = 2
SPECIFICATION Spec
INVARIANT CollectionAssetZeroMeansNone
