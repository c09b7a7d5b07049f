--------------------------- MODULE MCGattRequests ---------------------------
EXTENDS GattRequests
MCHandles == {2, 3, 4, 5}
=============================================================================
