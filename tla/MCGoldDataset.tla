---------------------------- MODULE MCGoldDataset ----------------------------
EXTENDS GoldDataset

CONSTANTS k1, k2
MCLinks == {<<k1, k2>>, <<k1, k1>>}
=============================================================================
