---------------------------- MODULE HeadPinning ----------------------------
(***************************************************************************)
(* The pin store of pinning.ts as the monitor of cli.ts runs it: an        *)
(* observation checks the head it is shown, awaits the log's consistency   *)
(* proof when the size changed, sets the pin and saves it.  Observations   *)
(* of one store may overlap, and the process may stop between any two      *)
(* steps and start again from the saved pin.                               *)
(***************************************************************************)
EXTENDS TreeHeads

CONSTANTS
  Observers,   \* calls of observe
  Heads,       \* the heads they are shown, genuine or not
  Paths,       \* what the log's consistency endpoint may answer
  Trusted      \* the pinned key or key directory

ASSUME HeadsAssumption == \A h \in Heads : h.tree_size \in Nat
ASSUME PathsAssumption == \A path \in Paths : IsList(path)

\* What the trusted keys signed, the log signed, over the first entries of a
\* history.
ASSUME SignedAssumption == \A h \in Heads : ValidHead(h, Trusted) => h \in Genuine
ASSUME GenuineAssumption == \A h \in Genuine : \E hist \in Histories : Describes(hist, h)

VARIABLES
  pin,         \* None or <<head>>: the store's pin
  saved,       \* None or <<head>>: the monitor's state file
  obs,         \* each observation: [at, head, previous, path, bundle]
  accepted,    \* history: heads whose observation came back pinned or advanced
  overlapped   \* history: one observation began while another was under way

pinVars == <<pin, saved, obs, accepted, overlapped>>

Idle == [at |-> "idle", head |-> None, previous |-> None, path |-> None, bundle |-> None]

UnderWay == {"fetching", "pinning", "advancing"}

Becomes(o, r) == obs' = [obs EXCEPT ![o] = r]

Ends(o, status) == Becomes(o, [obs[o] EXCEPT !.at = status])

SetPin(h) == pin' = <<h>>

\* observe, up to its first await or its early return.
Shown(o, h, status, bundle) ==
  Becomes(o, [at |-> status, head |-> <<h>>, previous |-> pin, path |-> None, bundle |-> bundle])

ShownInvalid(o, h) ==
  /\ ~ValidHead(h, Trusted)
  /\ Shown(o, h, "error", None)
  /\ UNCHANGED pin

ShownFirst(o, h) ==
  /\ ValidHead(h, Trusted)
  /\ pin = None
  /\ SetPin(h)
  /\ Shown(o, h, "pinning", None)

ShownOtherLog(o, h) ==
  /\ ValidHead(h, Trusted)
  /\ pin # None /\ pin[1].log_id # h.log_id
  /\ Shown(o, h, "error", None)
  /\ UNCHANGED pin

OfPinnedLog(h) == ValidHead(h, Trusted) /\ pin # None /\ pin[1].log_id = h.log_id

ShownSameSize(o, h) ==
  /\ OfPinnedLog(h) /\ pin[1].tree_size = h.tree_size
  /\ IF pin[1].root = h.root
       THEN Shown(o, h, "unchanged", None)
       ELSE Shown(o, h, "equivocation",
                  IF Convicts(pin[1], h, Trusted, None) THEN <<pin[1], h>> ELSE None)
  /\ UNCHANGED pin

ShownOtherSize(o, h) ==
  /\ OfPinnedLog(h) /\ pin[1].tree_size # h.tree_size
  /\ \/ Shown(o, h, "fetching", None)
     \/ Shown(o, h, "error", None)   \* no consistency fetcher was supplied
  /\ UNCHANGED pin

Observe(o) ==
  /\ obs[o].at = "idle"
  /\ \E h \in Heads :
       \/ ShownInvalid(o, h)
       \/ ShownFirst(o, h)
       \/ ShownOtherLog(o, h)
       \/ ShownSameSize(o, h)
       \/ ShownOtherSize(o, h)
  /\ overlapped' = (overlapped \/ \E p \in Observers : obs[p].at \in UnderWay)
  /\ UNCHANGED <<saved, accepted>>

FetchFails(o) ==
  /\ obs[o].at = "fetching"
  /\ Ends(o, "error")
  /\ UNCHANGED <<pin, saved, accepted, overlapped>>

Growing(o) == obs[o].head[1].tree_size > obs[o].previous[1].tree_size

\* Slip: a proof that could not be verified does not stop the pin.
ProofStandsAlways(o, path) == TRUE

ProofStands(o, path) ==
  ProvesExtension(obs[o].previous[1], obs[o].head[1], Trusted, <<path>>)

\* The rest of observe, after the proof was fetched.
ProofAnswers(o) ==
  /\ obs[o].at = "fetching"
  /\ \E path \in Paths :
       LET with == [obs[o] EXCEPT !.path = <<path>>]
       IN \/ /\ Convicts(obs[o].previous[1], obs[o].head[1], Trusted, <<path>>)
             /\ Becomes(o, [with EXCEPT !.at = "equivocation",
                                        !.bundle = <<obs[o].previous[1], obs[o].head[1]>>])
             /\ UNCHANGED pin
          \/ /\ ~Convicts(obs[o].previous[1], obs[o].head[1], Trusted, <<path>>)
             /\ ~ProofStands(o, path)
             /\ Becomes(o, [with EXCEPT !.at = "error"])
             /\ UNCHANGED pin
          \/ /\ ProofStands(o, path) /\ ~Growing(o)
             /\ Becomes(o, [with EXCEPT !.at = "lagging"])
             /\ UNCHANGED pin
          \/ /\ ProofStands(o, path) /\ Growing(o)
             /\ SetPin(obs[o].head[1])
             /\ Becomes(o, [with EXCEPT !.at = "advancing"])
  /\ UNCHANGED <<saved, accepted, overlapped>>

\* onPin wrote the file, and observe returns.
Saves(o) ==
  /\ obs[o].at \in {"pinning", "advancing"}
  /\ saved' = obs[o].head
  /\ accepted' = accepted \cup {obs[o].head[1]}
  /\ Ends(o, IF obs[o].at = "pinning" THEN "pinned" ELSE "advanced")
  /\ UNCHANGED <<pin, overlapped>>

\* onPin throws out of observe: the pin in memory stays where it was put.
SaveFails(o) ==
  /\ obs[o].at \in {"pinning", "advancing"}
  /\ Ends(o, "threw")
  /\ UNCHANGED <<pin, saved, accepted, overlapped>>

\* Slip: the next run does not read the state file.
StartsAfresh ==
  /\ pin' = None
  /\ obs' = [o \in Observers |-> IF obs[o].at \in UnderWay THEN [obs[o] EXCEPT !.at = "lost"] ELSE obs[o]]
  /\ UNCHANGED <<saved, accepted, overlapped>>

\* The process stops, and the next one reads the pin it saved.
Restart ==
  /\ pin' = saved
  /\ obs' = [o \in Observers |-> IF obs[o].at \in UnderWay THEN [obs[o] EXCEPT !.at = "lost"] ELSE obs[o]]
  /\ UNCHANGED <<saved, accepted, overlapped>>

PinInit ==
  /\ pin = None
  /\ saved = None
  /\ obs = [o \in Observers |-> Idle]
  /\ accepted = {}
  /\ overlapped = FALSE

PinNext ==
  \/ \E o \in Observers :
       Observe(o) \/ FetchFails(o) \/ ProofAnswers(o) \/ Saves(o) \/ SaveFails(o)
  \/ Restart
-----------------------------------------------------------------------------
OptionalHead == {None} \cup {<<h>> : h \in Heads}

(* A pin is always a head that verified, the saved one included. *)
PinTypeOK ==
  /\ pin \in OptionalHead /\ saved \in OptionalHead
  /\ \A h \in Heads : <<h>> \in {pin, saved} => ValidHead(h, Trusted)
  /\ accepted \subseteq Heads
  /\ \A o \in Observers :
       /\ obs[o].head \in OptionalHead /\ obs[o].previous \in OptionalHead
       /\ obs[o].at = "fetching" => obs[o].head # None /\ obs[o].previous # None
  /\ overlapped \in BOOLEAN

OneHistory(a, b) == \E hist \in Histories : Describes(hist, a) /\ Describes(hist, b)

(* A log that shows two histories cannot have heads of both accepted, through
   any order of growing, lagging and forked heads, failed saves and restarts,
   as long as the observations of a store do not overlap. *)
AcceptedFormOneHistory ==
  ~overlapped => \A a, b \in accepted : OneHistory(a, b)

OnlyForksConvict ==
  \A o \in Observers :
    obs[o].at = "equivocation" =>
      /\ obs[o].bundle # None
      /\ {obs[o].bundle[1], obs[o].bundle[2]} \subseteq Genuine
      /\ obs[o].bundle[1].tree_size = obs[o].bundle[2].tree_size
      /\ obs[o].bundle[1].root # obs[o].bundle[2].root

HonestPath(a, b) ==
  LET hist == CHOOSE hist \in Histories : Describes(hist, a) /\ Describes(hist, b)
  IN ConsistencyProof(SubSeq(hist, 1, Newer(a, b).tree_size), Older(a, b).tree_size)

HonestProofAccepted ==
  \A o \in Observers :
    obs[o].at = "error" /\ obs[o].path # None =>
      LET a == obs[o].previous[1]  b == obs[o].head[1]
      IN ~(OneHistory(a, b) /\ obs[o].path[1] = HonestPath(a, b))

(* Only a log that signed two roots for one size is convicted, and the verdict
   always has the two heads to publish; a replica that lags or grows along the
   pinned history and answers with the proof of it is never turned away. *)
PinVerdictsAreEarned == OnlyForksConvict /\ HonestProofAccepted

-----------------------------------------------------------------------------
(* The inductive invariant of the proofs.                                   *)

Observations ==
  [at : {"idle", "lost", "error", "unchanged", "equivocation", "lagging", "threw", "pinned",
         "advanced"} \cup UnderWay,
   head : OptionalHead, previous : OptionalHead,
   path : {None} \cup {<<path>> : path \in Paths},
   bundle : {None} \cup {<<a, b>> : a \in Heads, b \in Heads}]

PinTypes ==
  /\ pin \in OptionalHead /\ saved \in OptionalHead
  /\ obs \in [Observers -> Observations]
  /\ accepted \subseteq Heads
  /\ overlapped \in BOOLEAN

Valid(h) == ValidHead(h, Trusted)

\* Whatever is pinned, saved or about to be verified.
VerifiedPin ==
  /\ pin # None => Valid(pin[1])
  /\ saved # None => Valid(saved[1])
  /\ \A o \in Observers : obs[o].at \in {"pinning", "advancing"} =>
       obs[o].head # None /\ Valid(obs[o].head[1])

\* An observation that waits for a proof asked for one between two heads of a log.
Asking(r) ==
  /\ r.head # None /\ r.previous # None /\ r.path = None
  /\ Valid(r.head[1]) /\ Valid(r.previous[1])
  /\ r.head[1].log_id = r.previous[1].log_id
  /\ r.head[1].tree_size # r.previous[1].tree_size

Asked == \A o \in Observers : obs[o].at = "fetching" => Asking(obs[o])

\* An observation that is alone works on the pin.
Alone ==
  /\ \A o, p \in Observers : obs[o].at \in UnderWay /\ obs[p].at \in UnderWay => o = p
  /\ \A o \in Observers :
       /\ obs[o].at = "fetching" => obs[o].previous = pin
       /\ obs[o].at \in {"pinning", "advancing"} => obs[o].head = pin

\* Every history of h has all that was accepted.
Includes(h) ==
  \A hist \in Histories : Describes(hist, h) => \A a \in accepted : Describes(hist, a)

\* The pin and the saved pin include what was accepted.
Unbroken ==
  /\ pin = None => saved = None
  /\ saved = None => accepted = {}
  /\ pin # None => Includes(pin[1])
  /\ saved # None => Includes(saved[1])

PinInv ==
  /\ PinTypes /\ VerifiedPin /\ Asked
  /\ ~overlapped => Alone /\ Unbroken

=============================================================================
