--------------------------- MODULE MCFreezerTable ---------------------------
EXTENDS FreezerTable
MCBlob == {<<1>>, <<2, 3>>}
=============================================================================
