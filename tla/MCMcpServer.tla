---------------------------- MODULE MCMcpServer ----------------------------
(* A feed of three observations in batches of two: one promise with a date   *)
(* and a person, one without a date, and a topic taken up twice, the second  *)
(* time with an earlier time (audio after frames).                           *)
EXTENDS McpServer

CONSTANTS Sarah, Quote, Pricing

Item(says, hints, promise, topic, from) ==
    [says |-> says, hints |-> hints, promise |-> promise, topic |-> topic, from |-> from]

MCFeed == << Item({Sarah, Quote}, {}, [due |-> 1, with |-> Sarah], Pricing, 5),
             Item({Quote}, {Sarah}, None, Pricing, 3),
             Item({Sarah}, {}, [due |-> None, with |-> None], None, 6) >>

MCScopes == { [cue |-> Sarah, from |-> 0, to |-> 0], [cue |-> None, from |-> 0, to |-> 1] }

MCTexts == {Sarah, Quote, Pricing}

MCCues == {Sarah, Quote}
MCNames == {Sarah}
MCCutoffs == {None, 0}

(* "quote" is in "pricing quote".                                            *)
MCLike == {<<t, t>> : t \in MCTexts} \cup {<<Quote, Pricing>>}
MCKs == {0, 3}

(* A session reads what no one can write while it lives, and its calls share *)
(* no more than the clock with the stores: it is followed while nothing else *)
(* runs, and once it has made calls, while nothing is stored.  A daemon that *)
(* was started without a brain meets one trouble.                            *)
MCApart ==
    /\ session = "open" => daemon.at \in {"down", "idle"} /\ forgetter.at = "idle"
    /\ admitted # <<>> => minted = 0 /\ used.failed = {}
    /\ past.ephemeral # {} /\ used.destroys = 0 => used.crashes + Cardinality(used.failed) <= 1

(* The clock stands still within a batch, within a run of forget, and once   *)
(* as many episodes were stored as the feed has items.                       *)
MCCalm ==
    now' # now =>
        minted < Len(Feed) /\ daemon.at \in {"down", "idle"} /\ forgetter.at = "idle"
=============================================================================
