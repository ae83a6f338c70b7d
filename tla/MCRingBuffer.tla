---------------------------- MODULE MCRingBuffer ----------------------------
(***************************************************************************)
(* RingBuffer with a view that tells two states apart by what the rest of  *)
(* the behaviour and the properties depend on: a local of a call counts    *)
(* from the step that sets it to the last that uses it.                    *)
(***************************************************************************)
EXTENDS RingBuffer

Live(used, v) == IF used THEN v ELSE 0

View ==
  <<ring, wpc, rpc, failed, offered, accepted, delivered, torn, spoiled,
    Live(wpc = "head" \/ Writes, <<wreq, wbase, wroom>>),
    Live(Writes, claim),
    Live(wpc = "tail", whead),
    Live(wpc \in {"branch", "place", "copy"}, wn),
    Live(wpc \in {"place", "copy"}, wdst),
    Live(wpc = "copy", <<wi, wfirst>>),
    Live(rpc \in {"head", "tail"} \/ Reads, <<rreq, ravail>>),
    Live(rpc = "tail", rhead),
    Live(Reads \/ rpc \in {"wrap", "done"}, rn),
    Live(rpc \in {"place", "copy", "wrap", "done"}, rsrc),
    Live(rpc \in {"copy", "wrap", "done"}, <<rfirst, rdata>>)>>
=============================================================================
