-------------------------- MODULE MCDownloadQueue ---------------------------
EXTENDS DownloadQueue, TLC

CONSTANTS p1, p2

MCWithBody == {1, 3}
MCWithReceipts == {1, 2}
MCStart == {[mode |-> "full", last |-> 2, peers |-> {p1, p2}, reliable |-> {}],
            [mode |-> "fast", last |-> 3, peers |-> {p1}, reliable |-> {}]}
MCLive == {[mode |-> "full", last |-> 1, peers |-> {p1, p2}, reliable |-> {p1}],
           [mode |-> "fast", last |-> 2, peers |-> {p1}, reliable |-> {p1}]}
MCLiveBody == {1}
=============================================================================
