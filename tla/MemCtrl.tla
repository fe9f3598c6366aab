------------------------------ MODULE MemCtrl ------------------------------
(***************************************************************************)
(* The memory driver of pra5: open allocates an array of two pointers,     *)
(* write a buffer for each, read gives a buffer back and frees it, release *)
(* frees the array.  There is one array for all who have the device open,  *)
(* and no pointer is ever cleared.                                         *)
(***************************************************************************)
EXTENDS Integers, FiniteSets

CONSTANTS
  Clients,   \* the processes that run test_mem
  Texts,     \* what they write
  Blocks     \* bound: how often kmalloc is called

ASSUME MemCtrlAssumption == Blocks \in Nat \ {0}

VARIABLES
  clients,   \* the processes that have the device open
  ptr,       \* the block of the array, 0 before the first open
  allocated, \* blocks that kmalloc has returned: 1..allocated, never reused here
  live,      \* the blocks that are not freed
  cell,      \* cell[b][idx]: the pointers in an array, 0 where it is not written
  text,      \* text[b]: the contents of a buffer
  unread,    \* history: for both sizes, what was written and not yet read
  refused,   \* history: the blocks whose last read failed
  fetched,   \* history: what the last read should return and what it returned
  corrupt,   \* history: a pointer was used that is freed or was never written
  misused    \* history: the device was not used the way test_mem uses it

memVars == <<clients, ptr, allocated, live, cell, text, unread, refused, fetched, corrupt,
             misused>>

\* idx: 0 for at most SIZE bytes, 1 for more.
Sizes == {0, 1}
Garbage == "garbage"
Nothing == "nothing"

ASSUME TextsAssumption == Nothing \notin Texts

MemInit ==
  /\ clients = {} /\ ptr = 0 /\ allocated = 0 /\ live = {}
  /\ cell = [b \in 1..Blocks |-> [idx \in Sizes |-> 0]]
  /\ text = [b \in 1..Blocks |-> Garbage]
  /\ unread = [idx \in Sizes |-> Nothing] /\ refused = {}
  /\ fetched = <<Nothing, Nothing>> /\ corrupt = FALSE /\ misused = FALSE

kmalloc ==
  /\ allocated < Blocks
  /\ allocated' = allocated + 1
  /\ live' = live \cup {allocated'}
kfree(b) ==
  /\ live' = live \ {b}
  /\ UNCHANGED allocated

mem_ctrl_open(a) ==
  /\ a \notin clients
  /\ kmalloc
  /\ ptr' = allocated'
  /\ clients' = clients \cup {a}
  /\ misused' = (misused \/ clients # {})
  /\ UNCHANGED <<cell, text, unread, refused, fetched, corrupt>>

\* A buffer of this size is there that nobody has tried to read.
Untried(idx) == unread[idx] # Nothing /\ cell[ptr][idx] \notin refused

\* A buffer for each write; copy_from_user may fail (EFAULT) after it was allocated.
Copied(t) == {t, Garbage}
mem_ctrl_write(a, idx, t) ==
  /\ a \in clients
  /\ kmalloc
  /\ cell' = [cell EXCEPT ![ptr][idx] = allocated']
  /\ \E c \in Copied(t) :
       /\ text' = [text EXCEPT ![allocated'] = c]
       /\ unread' = [unread EXCEPT ![idx] = c]
  /\ corrupt' = (corrupt \/ ptr \notin live)
  /\ misused' = (misused \/ Untried(idx))
  /\ UNCHANGED <<clients, ptr, refused, fetched>>

\* The buffer is freed once it was read (mutant: not the large one).  If
\* copy_to_user fails it is kept: whoever does not read again, as test_mem, which
\* does not look at the result, leaves it behind.
FreedSmall(idx, b) == IF idx = 0 THEN kfree(b) ELSE UNCHANGED <<live, allocated>>
Freed(idx, b) == kfree(b)
mem_ctrl_read(a, idx) ==
  /\ a \in clients
  /\ LET b == cell[ptr][idx] IN
     /\ corrupt' = (corrupt \/ ptr \notin live \/ b \notin live)
     /\ misused' = (misused \/ unread[idx] = Nothing)
     /\ \/ /\ Freed(idx, b)
           /\ fetched' = <<unread[idx], IF b = 0 THEN Garbage ELSE text[b]>>
           /\ unread' = [unread EXCEPT ![idx] = Nothing]
           /\ refused' = refused \ {b}
        \/ /\ refused' = refused \cup {b}
           /\ UNCHANGED <<live, allocated, unread, fetched>>
  /\ UNCHANGED <<clients, ptr, cell, text>>

\* The array is freed, the buffers are not.
mem_ctrl_release(a) ==
  /\ a \in clients
  /\ clients' = clients \ {a}
  /\ kfree(ptr)
  /\ corrupt' = (corrupt \/ ptr \notin live)
  /\ misused' = (misused \/ \E idx \in Sizes : Untried(idx))
  /\ unread' = [idx \in Sizes |-> Nothing]
  /\ UNCHANGED <<ptr, cell, text, refused, fetched>>

\* Nothing is said about what comes after a misuse.
MemNext ==
  /\ ~misused
  /\ \E a \in Clients :
       \/ mem_ctrl_open(a) \/ mem_ctrl_release(a)
       \/ \E idx \in Sizes : mem_ctrl_read(a, idx) \/ \E t \in Texts : mem_ctrl_write(a, idx, t)

----------------------------------------------------------------------------
(* Properties.                                                             *)

\* Used the way test_mem uses it (one process at a time, and for either size every
\* write is followed by a read, that may fail, before the next write or close) the
\* driver frees no block twice, uses none that is freed, a read returns what was
\* written last for its size, and close leaves behind exactly the buffers whose read
\* failed and was not repeated: without a failed copy_to_user nothing is lost, with
\* one mem_ctrl.c:61 returns before the kfree of line 64, and nobody else can free
\* the buffer.  Everything else loses memory or frees it twice: the driver keeps no
\* record of what its pointers are worth.
HeapSound ==
  ~misused =>
    /\ ~corrupt
    /\ clients = {} => live = refused
    /\ fetched[1] = fetched[2]

=============================================================================
