--------------------------- MODULE MCCatalogSend ---------------------------
EXTENDS CatalogSend
MCOrders == {<<"b1">>}
=============================================================================
