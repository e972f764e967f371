--------------------------- MODULE MCFlickerNotes ---------------------------
(* TLC instances of FlickerNotes: the usual level, a small dip, a sag and a *)
(* lopsided interval; notes about lamps and sets, and bodies refused.      *)
EXTENDS FlickerNotes

MCLevels == {[v |-> 1000, lo |-> 1000, hi |-> 1000], [v |-> 980, lo |-> 980, hi |-> 980],
             [v |-> 800, lo |-> 600, hi |-> 1010]}
Body == [kind |-> "tv", at |-> 0, pika_location |-> "desk", tv_count |-> "one", same_moment |-> "",
         tv_source |-> "", blank_s |-> 8, recovery |-> "", note |-> ""]
MCBodies == {Body, [Body EXCEPT !.kind = "lights", !.at = 1],
             [Body EXCEPT !.at = 2], [Body EXCEPT !.blank_s = 0], [Body EXCEPT !.note = TooLong]}

(* Bound: where notes are posted, the history is shorter.                  *)
ShortWithNotes == posted = 0 \/ now <= 2
MCSpec == Init /\ [][Next /\ ShortWithNotes']_vars
=============================================================================
