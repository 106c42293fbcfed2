----------------------------- MODULE SlottedMux -----------------------------
(***************************************************************************)
(* The cell multiplexers of src/muxdmx with one queue: mux, muxDF, muxAF   *)
(* and muxDist.  Cells that arrive in the early phase of a slot are        *)
(* buffered by REC; late(), called in every slot, puts them into the queue *)
(* in random order; early() is called by the server's event and sends the  *)
(* cell at the head of the queue.  The classes differ in when that event   *)
(* is registered:                                                          *)
(*                                                                         *)
(*   mux      by late(), if there was a cell before the arrivals           *)
(*   muxDF    by early() itself, every `active' slots                      *)
(*   muxAF    like muxDF; early() and late() also change the queue's limit *)
(*   muxDist  by late(), if the server is free, for a random service time  *)
(***************************************************************************)
EXTENDS Integers, Sequences, FiniteSets, SequencesExt, FiniteSetsExt

CONSTANTS
  Classes,        \* classes of multiplexers considered
  Input,          \* inputs: one cell per slot and input at most
  buff,           \* parameter BUFF: buff + 1 places in the queue
  active,         \* parameter ACTIVE of muxDF and muxAF
  Table,          \* service times muxDist may draw
  MaxCells,       \* bound on the number of arrivals
  None

ASSUME ClassAssumption == Classes \subseteq {"mux", "muxDF", "muxAF", "muxDist"}
ASSUME BufferAssumption == buff \in Nat /\ MaxCells \in Nat
ASSUME TimeAssumption ==
  /\ active \in Nat \ {0}
  /\ Table \subseteq Nat \ {0} /\ Table # {} /\ IsFiniteSet(Table)
ASSUME NoneAssumption == None \notin Nat

VARIABLES
  class,
  q, q_max,             \* the queue and its limit
  q_hi, q_lo, served,   \* muxAF
  serving,              \* muxDist
  inp_buff,             \* cells arrived in this slot
  old_q_len,            \* mux: local variable of late()
  std_evt,              \* slots until early(), or None
  phase,                \* of the slot: "early" or "late"
  \* history
  used,                 \* inputs that have sent in this slot
  arrived,              \* number of cells that came
  out,                  \* cells sent to the successor
  dropped               \* numbers of the cells lost

server  == <<q_max, q_hi, q_lo, served, serving, std_evt>>
history == <<used, arrived, out, dropped>>
vars    == <<class, q, server, inp_buff, old_q_len, phase, history>>

(* A cell is its number and the slots passed since it arrived.             *)
Cell == [id : 1 .. MaxCells, age : Nat]

-----------------------------------------------------------------------------
(* The constructors run before the script sets the limit of the queue: the *)
(* one of muxAF finds a queue with the limit 0.                            *)
Init ==
  /\ class \in Classes
  /\ q = <<>> /\ q_max = buff + 1
  /\ q_hi = 0 /\ q_lo = -1 /\ served = FALSE
  /\ serving = FALSE
  /\ inp_buff = {} /\ old_q_len = 0
  /\ std_evt = IF class \in {"muxDF", "muxAF"} THEN active ELSE None
  /\ phase = "early"
  /\ used = {} /\ arrived = 0 /\ out = <<>> /\ dropped = {}

(* Mutant of Limit: a limit below 0 is accepted.                           *)
LimitUnchecked(len, mx) == mx

(* queue::setmax(): refused if the queue, then of length len, is longer.   *)
Limit(len, mx) == IF mx < len THEN q_max ELSE mx

(* REC: a cell arrives in the early phase, before or after early().        *)
Arrive(i) ==
  /\ phase = "early"
  /\ i \notin used
  /\ arrived < MaxCells
  /\ used' = used \cup {i}
  /\ arrived' = arrived + 1
  /\ inp_buff' = inp_buff \cup {arrived'}
  /\ UNCHANGED <<class, q, server, old_q_len, phase, out, dropped>>

-----------------------------------------------------------------------------
Send ==
  /\ out' = Append(out, Head(q))
  /\ q' = Tail(q)

(* Mutant of SendNext: the newest cell is sent.                            *)
SendLast ==
  /\ phase = "early" /\ std_evt = 0
  /\ class \in {"mux", "muxDist"}
  /\ out' = Append(out, Last(q)) /\ q' = Front(q)
  /\ serving' = FALSE
  /\ std_evt' = None
  /\ UNCHANGED <<class, q_max, q_hi, q_lo, served, inp_buff, old_q_len, phase,
                 used, arrived, dropped>>

(* early() of mux and muxDist: no test whether there is a cell.            *)
SendNext ==
  /\ phase = "early" /\ std_evt = 0
  /\ class \in {"mux", "muxDist"}
  /\ Send
  /\ serving' = FALSE
  /\ std_evt' = None
  /\ UNCHANGED <<class, q_max, q_hi, q_lo, served, inp_buff, old_q_len, phase,
                 used, arrived, dropped>>

(* early() of muxDF and muxAF, in every active-th slot.                    *)
ServiceSlot ==
  /\ phase = "early" /\ std_evt = 0
  /\ class \in {"muxDF", "muxAF"}
  /\ IF q # <<>>
       THEN /\ Send
            /\ IF class = "muxAF"
                 THEN served' = TRUE /\ q_max' = Limit(Len(q'), q_lo)
                 ELSE UNCHANGED <<served, q_max>>
       ELSE UNCHANGED <<q, out, served, q_max>>
  /\ std_evt' = active
  /\ UNCHANGED <<class, q_hi, q_lo, serving, inp_buff, old_q_len, phase, used,
                 arrived, dropped>>

(* The early phase ends when the server's event is not due; late() begins. *)
EnterLate ==
  /\ phase = "early" /\ std_evt # 0
  /\ phase' = "late"
  /\ old_q_len' = Len(q)
  /\ UNCHANGED <<class, q, server, inp_buff, history>>

-----------------------------------------------------------------------------
(* Mutant of Enqueue: a cell that finds no room is not counted.            *)
EnqueueUncounted(n) ==
  /\ phase = "late" /\ n \in inp_buff
  /\ inp_buff' = inp_buff \ {n}
  /\ q' = IF Len(q) = q_max THEN q ELSE Append(q, [id |-> n, age |-> 0])
  /\ UNCHANGED <<class, server, old_q_len, phase, history>>

(* late() goes through the arrivals in random order.                       *)
Enqueue(n) ==
  /\ phase = "late" /\ n \in inp_buff
  /\ inp_buff' = inp_buff \ {n}
  /\ IF Len(q) = q_max
       THEN dropped' = dropped \cup {n} /\ UNCHANGED q
       ELSE q' = Append(q, [id |-> n, age |-> 0]) /\ UNCHANGED dropped
  /\ UNCHANGED <<class, server, old_q_len, phase, used, arrived, out>>

(* Mutants of Register: mux registers without a cell; muxDist draws again  *)
(* while it serves.                                                        *)
RegisterAlways(e) ==
  \/ class = "mux" /\ e = 1 /\ UNCHANGED serving
  \/ class \in {"muxDF", "muxAF"} /\ e = std_evt /\ UNCHANGED serving
  \/ class = "muxDist" /\ IF ~ serving /\ q # <<>>
                            THEN e \in Table /\ serving' = TRUE
                            ELSE e = std_evt /\ UNCHANGED serving

RegisterAnew(e) ==
  \/ class = "mux" /\ UNCHANGED serving /\
       e = IF old_q_len # 0 THEN 1 ELSE std_evt
  \/ class \in {"muxDF", "muxAF"} /\ e = std_evt /\ UNCHANGED serving
  \/ class = "muxDist" /\ IF q # <<>>
                            THEN e \in Table /\ serving' = TRUE
                            ELSE e = std_evt /\ UNCHANGED serving

(* The end of late(): e is when the server's event is due.                 *)
Register(e) ==
  \/ class = "mux" /\ UNCHANGED serving /\
       e = IF old_q_len # 0 THEN 1 ELSE std_evt
  \/ class \in {"muxDF", "muxAF"} /\ e = std_evt /\ UNCHANGED serving
  \/ class = "muxDist" /\ IF ~ serving /\ q # <<>>
                            THEN e \in Table /\ serving' = TRUE
                            ELSE e = std_evt /\ UNCHANGED serving

(* late() returns, and the next slot begins.                               *)
NextSlot ==
  /\ phase = "late" /\ inp_buff = {}
  /\ phase' = "early"
  /\ \E e \in Table \cup {1, std_evt} :
       /\ Register(e)
       /\ std_evt' = IF e = None THEN None ELSE e - 1
  /\ served' = FALSE
  /\ q_max' = IF served THEN Limit(Len(q), q_hi) ELSE q_max
  /\ q' = [k \in DOMAIN q |-> [q[k] EXCEPT !.age = @ + 1]]
  /\ used' = {}
  /\ UNCHANGED <<class, q_hi, q_lo, inp_buff, old_q_len, arrived, out, dropped>>

-----------------------------------------------------------------------------
Next ==
  \/ \E i \in Input : Arrive(i)
  \/ SendNext \/ ServiceSlot
  \/ EnterLate
  \/ \E n \in inp_buff : Enqueue(n)
  \/ NextSlot

Spec == Init /\ [][Next]_vars

-----------------------------------------------------------------------------
(***************************************************************************)
(* Correctness                                                             *)
(***************************************************************************)

TypeOK ==
  /\ class \in Classes
  /\ q \in Seq(Cell) /\ q_max \in 0 .. buff + 1 /\ Len(q) <= buff + 1
  /\ q_hi \in Nat /\ q_lo \in Int
  /\ served \in BOOLEAN /\ serving \in BOOLEAN
  /\ inp_buff \subseteq 1 .. arrived
  /\ old_q_len \in 0 .. buff + 1
  /\ std_evt \in Nat \cup {None}
  /\ phase \in {"early", "late"}
  /\ used \subseteq Input /\ arrived \in 0 .. MaxCells
  /\ out \in Seq(Cell) /\ dropped \subseteq 1 .. arrived

Numbers(s) == {c.id : c \in ToSet(s)}

(* Every cell that arrived is in exactly one place: none is lost without   *)
(* being counted, none is sent twice.                                      *)
Conserved ==
  /\ inp_buff \cup Numbers(q) \cup Numbers(out) \cup dropped = 1 .. arrived
  /\ Cardinality(inp_buff) + Len(q) + Len(out) + Cardinality(dropped) = arrived

(* The event of mux and muxDist finds a cell: early() sends what dequeue() *)
(* returns without looking at it.  muxDist is registered while it serves.  *)
ServerFed ==
  /\ class \in {"mux", "muxDist"} /\ std_evt # None => q # <<>>
  /\ class = "muxDist" => (serving <=> std_evt # None)

(* Cells leave in the order of the slots they arrived in.                  *)
OldestFirst ==
  [][\A k \in DOMAIN q' : out' # out => Last(out').age >= q'[k].age]_vars

(* The time a cell spends in the multiplexer.  With mux it is two slots at *)
(* least, one of them for nothing: "The sojourn time is one slot too much" *)
(* (src/muxdmx/mux.c:74).                                                  *)
Shortest == CASE class = "mux"     -> 2
              [] class = "muxDist" -> Min(Table)
              [] OTHER             -> 1
Longest  == CASE class = "mux"     -> buff + 2
              [] class = "muxDist" -> (buff + 1) * Max(Table)
              [] OTHER             -> (buff + 1) * active

(* No cell leaves before its time, and none waits longer than a full queue *)
(* needs to be served: the server is never forgotten.                      *)
Sojourn ==
  /\ \A k \in DOMAIN out : out[k].age \in Shortest .. Longest
  /\ \A k \in DOMAIN q : q[k].age <= Longest

(* muxAF: "For AF, the cell should be effective for overflow calculation   *)
(* together with arrivals of the same slot" (src/muxdmx/muxaf.c:112): a    *)
(* cell is lost only if the queue and the cell just taken from it fill the *)
(* buffer.                                                                 *)
LossOnlyIfFull ==
  [][dropped' # dropped => Len(q) + (IF served THEN 1 ELSE 0) >= buff + 1]_vars
=============================================================================
