--------------------------- MODULE MCLivePipeline ---------------------------
(***************************************************************************)
(* Instances of LivePipeline for TLC.                                      *)
(***************************************************************************)
EXTENDS LivePipeline

Frame(kind, m, sides, some, parses) ==
    [kind |-> kind, market |-> m, sides |-> sides, some |-> some, parses |-> parses]

\* Enough for a covered market with either venue's help.
KalshiFew == {Frame("snapshot", "m1", {1, 2}, TRUE, TRUE)}

PolymarketFew ==
    {Frame("snapshot", "m1", {2}, TRUE, TRUE), Frame("halt", "m1", {2}, TRUE, TRUE)}

\* Whole and one-sided snapshots; deltas that set, delete, do not parse or are
\* skipped; a second market; notices.
KalshiAll ==
    {Frame("snapshot", "m1", {1, 2}, TRUE, TRUE), Frame("snapshot", "m2", {1}, TRUE, TRUE),
     Frame("delta", "m1", {1}, TRUE, TRUE), Frame("delta", "m1", {2}, FALSE, TRUE),
     Frame("delta", "m1", {1}, TRUE, FALSE), Frame("skip", "m1", {1}, TRUE, TRUE),
     Frame("trade", "m1", {1}, TRUE, TRUE), Frame("halt", "none", {}, TRUE, TRUE)}

\* A connection on which every frame arrives and parses.
KalshiLossless ==
    {Frame("snapshot", "m1", {1, 2}, TRUE, TRUE), Frame("delta", "m1", {1}, TRUE, TRUE),
     Frame("delta", "m1", {2}, TRUE, TRUE)}

None == {}
=============================================================================
