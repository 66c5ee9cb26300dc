---------------------------- MODULE MCUakinoSession ----------------------------
EXTENDS UakinoSession, TLC

CONSTANTS play, poster

MCRequests == {play, poster}
MCGated == {play}
MCDrivers == 1..4
=============================================================================
