------------------------ MODULE MCTimingEditor ------------------------
EXTENDS TimingEditor, TLC

CONSTANTS one, other

(* Two queues: two cards, or two focuses of one card. *)
MCQueues == {one, other}

=============================================================================
