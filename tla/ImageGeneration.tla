--------------------------- MODULE ImageGeneration ---------------------------
(***************************************************************************)
(* Keyframes (ImageGenerationPipeline): one item per frame, one paid call  *)
(* at a time.  All calls of an item share one reservation key.             *)
(***************************************************************************)
EXTENDS CostLedger

CONSTANTS ImageWorker, ImagePrice

ASSUME ImageAssumption == ImagePrice \in Nat \ {0} /\ IsFiniteSet(ImageWorker)

VARIABLES
  frame,     \* image_generation_items: the status of each frame
  drawer,    \* the attempts
  paid,      \* external: images the provider made and bills, per frame
  broken     \* history: frames with a call that failed, was cut off or doubled

imageVars == <<frame, drawer, paid, broken>>

FrameStatus == {"compiled", "checkpointed", "unknown", "received", "completed"}

MaxImages == MaxFaults + 1

ImageType ==
  /\ frame \in [Frame -> FrameStatus]
  /\ drawer \in [ImageWorker -> [pc: {"idle", "calling", "received", "booked"}, frame: Frame \cup {0}]]
  /\ paid \in [Frame -> 0..MaxImages]
  /\ broken \subseteq Frame

Drop(v) == drawer' = [drawer EXCEPT ![v] = [pc |-> "idle", frame |-> 0]]

Draw(v, pc) == drawer' = [drawer EXCEPT ![v].pc = pc]

\* The outcomes that a person has to look into are not retried.
Callable(status) == status \notin {"unknown", "received", "completed"}

\* The item's checkpoint, and the reservation, are committed before the call.
Call(v, f) ==
  /\ drawer[v].pc = "idle"
  /\ Callable(frame[f])
  /\ IF \A u \in ImageWorker : drawer[u].frame # f
     THEN UNCHANGED <<faults, broken>>
     ELSE Fault /\ broken' = broken \cup {f}
  /\ MayReserve(<<f, 0>>, ImagePrice)
  /\ Reserve(<<f, 0>>, ImagePrice)
  /\ frame' = [frame EXCEPT ![f] = "checkpointed"]
  /\ drawer' = [drawer EXCEPT ![v] = [pc |-> "calling", frame |-> f]]
  /\ UNCHANGED <<narrator, paid>>

\* Only the answer is recorded at first, so that a later failure never pays again.
Receive(v) ==
  LET f == drawer[v].frame IN
  /\ drawer[v].pc = "calling"
  /\ paid' = [paid EXCEPT ![f] = @ + 1]
  /\ frame' = [frame EXCEPT ![f] = "received"]
  /\ Draw(v, "received")
  /\ UNCHANGED <<ledgerVars, broken, faults>>

Book(v) ==
  LET f == drawer[v].frame IN
  /\ drawer[v].pc = "received"
  /\ MayReconcile(<<f, 0>>)
  /\ Reconcile(<<f, 0>>, ImagePrice)
  /\ Draw(v, "booked")
  /\ UNCHANGED <<narrator, frame, paid, broken, faults>>

\* Decoded, validated, stored and selected.
Store(v) ==
  /\ drawer[v].pc = "booked"
  /\ frame' = [frame EXCEPT ![drawer[v].frame] = "completed"]
  /\ Drop(v)
  /\ UNCHANGED <<ledgerVars, paid, broken, faults>>

\* The connection broke: the image may have been made.
OutcomeUnknown(v) ==
  LET f == drawer[v].frame IN
  /\ Fault
  /\ drawer[v].pc = "calling"
  /\ \E made \in {0, 1} : paid' = [paid EXCEPT ![f] = @ + made]
  /\ frame' = [frame EXCEPT ![f] = "unknown"]
  /\ Drop(v)
  /\ UNCHANGED <<ledgerVars, broken>>

\* The provider refuses, or the call is cancelled under way.
CallFails(v) ==
  LET f == drawer[v].frame IN
  /\ Fault
  /\ drawer[v].pc = "calling"
  /\ MayReconcile(<<f, 0>>)
  /\ Reconcile(<<f, 0>>, 0)
  /\ \E made \in {0, 1} : paid' = [paid EXCEPT ![f] = @ + made]
  /\ broken' = broken \cup {f}
  /\ Drop(v)
  /\ UNCHANGED <<narrator, frame>>

\* A worker dies; an image that does not validate ends the attempt as well.
AbandonImage(v) ==
  LET f == drawer[v].frame IN
  /\ Fault
  /\ drawer[v].pc # "idle"
  /\ \E made \in (IF drawer[v].pc = "calling" THEN {0, 1} ELSE {0}) :
       paid' = [paid EXCEPT ![f] = @ + made]
  /\ broken' = IF drawer[v].pc = "calling" THEN broken \cup {f} ELSE broken
  /\ Drop(v)
  /\ UNCHANGED <<ledgerVars, frame>>

ImageInit ==
  /\ frame = [f \in Frame |-> "compiled"]
  /\ drawer = [v \in ImageWorker |-> [pc |-> "idle", frame |-> 0]]
  /\ paid = [f \in Frame |-> 0]
  /\ broken = {}

ImageNext ==
  \E v \in ImageWorker :
    \/ \E f \in Frame : Call(v, f)
    \/ Receive(v) \/ Book(v) \/ Store(v)
    \/ OutcomeUnknown(v) \/ CallFails(v) \/ AbandonImage(v)

=============================================================================
