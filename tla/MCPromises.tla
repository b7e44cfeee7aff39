----------------------------- MODULE MCPromises -----------------------------
(***************************************************************************)
(* What comments of the repository promise of sequential code, and the     *)
(* code does not keep.  A behaviour of MCSequential goes from call to      *)
(* call; broken remembers the promises that earlier calls have broken.     *)
(* One more is called here, the case of a break code in keyboard_service() *)
(* on a status word, with the operators of Keyboard.                       *)
(***************************************************************************)
EXTENDS MCSequential

VARIABLE broken

Keys == INSTANCE Keyboard
  WITH Letters <- {"a"}, Greys <- {}, Fakes <- {}, MAX_HELD <- 1, MAX_WIRE <- 2,
       g_key_status <- {}, wire <- <<>>, out <- 2, held <- {}, caps <- FALSE,
       shift_sent <- FALSE, want <- 2, sure <- TRUE

TakeBreak == \E code \in {"ctrl_l", "alt_l"}, ext \in BOOLEAN, st \in SUBSET Keys!Modifiers :
               input' = [kind |-> "break", code |-> code, ext |-> ext, st |-> st]

-----------------------------------------------------------------------------
(* list_find_item() returns TRUE for the items that are in the list it is   *)
(* given and for no others: the ASSERTs that keep a PCB from being queued   *)
(* twice rely on it.                                                        *)
FindsEveryItem ==
  \A q \in Queues, n \in Items : list_find_item(front[q], n) <=> n \in Within(q)

(* A break code clears the bit of its own key.                              *)
BreakClearsOwnBit ==
  input.kind = "break" =>
    Keys!break_bits(input.code, input.ext, input.st)
      = input.st \ {Keys!Side(input.code, input.ext)}

Promises == [list_find_item |-> FindsEveryItem,         \* list.c:124
             keyboard_service |-> BreakClearsOwnBit,    \* keyboard.c:143, 203
             bitmap_apply |-> ApplyIsFirstFit,          \* bitmap.c:67, 70
             prim_parts |-> FullDiskListed,             \* ide.h:27
             partition_scan |-> SecondDiskListed,       \* ide.h:27, 28
             vsprintf |-> TextEnds,                     \* stdio.c:34
             vaddr_free |-> FreedPagesReturn,           \* memory.c:443, bitmap.c:106
             get_kernel_pages |-> NeverStops]           \* memory.c:468

Broken == {p \in DOMAIN Promises : ~Promises[p]}

PromisesInit == SeqInit /\ broken = {}

PromisesNext ==
  /\ SeqNext \/ Call(TakeBreak)
  /\ broken' = broken \union Broken

PromisesSpec == PromisesInit /\ [][PromisesNext]_<<seqVars, broken>>

(* At least one of the promises is kept in whatever is called, as the       *)
(* comments have it of each.  A violation is a behaviour that breaks them   *)
(* all, one call after the other.                                           *)
SomePromiseKept == broken \union Broken # DOMAIN Promises
=============================================================================
