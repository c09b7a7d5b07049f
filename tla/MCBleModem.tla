----------------------------- MODULE MCBleModem -----------------------------
EXTENDS BleModem
MCMtus == {7}
MCRequestSizes == {1, 3}
MCResponseLens == {0, 1, 3}
=============================================================================
