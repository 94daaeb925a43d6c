--------------------------- MODULE ClientOwnership ----------------------------
(***************************************************************************)
(* What the threads of the server promise about CellClient objects: one of *)
(* them holds a client from its creation to its deletion.  The accept      *)
(* thread has at most one in its hands, gives it to a message thread, and  *)
(* that thread keeps it until it deletes it.  No client moves from one     *)
(* message thread to another, none is dropped without a delete or deleted  *)
(* by a thread that does not hold it, and a descriptor names one client.   *)
(***************************************************************************)
CONSTANTS
  Clients,
  Servers,      \* the message threads
  Acceptor,     \* the accept thread
  Fds,
  NoFd

VARIABLES
  held,         \* the clients that each thread holds
  deleted,      \* the clients that have been deleted
  fd            \* the descriptor of each client

ownershipVars == <<held, deleted, fd>>

Open == UNION {held[t] : t \in {Acceptor} \cup Servers}

OwnershipInit ==
  /\ held = [t \in {Acceptor} \cup Servers |-> {}]
  /\ deleted = {}
  /\ fd = [c \in Clients |-> NoFd]

Create(c, f) ==
  /\ held[Acceptor] = {}
  /\ c \notin Open \cup deleted
  /\ \A d \in Open : fd[d] # f
  /\ held' = [held EXCEPT ![Acceptor] = {c}]
  /\ fd' = [fd EXCEPT ![c] = f]
  /\ UNCHANGED deleted

HandOver(s) ==
  /\ held[Acceptor] # {}
  /\ held' = [held EXCEPT ![Acceptor] = {}, ![s] = @ \cup held[Acceptor]]
  /\ UNCHANGED <<deleted, fd>>

DeleteOwn(s, S) ==
  /\ held' = [held EXCEPT ![s] = @ \ S]
  /\ deleted' = deleted \cup S
  /\ UNCHANGED fd

OwnershipNext ==
  \/ \E c \in Clients, f \in Fds : Create(c, f)
  \/ \E s \in Servers : HandOver(s) \/ \E S \in SUBSET held[s] : DeleteOwn(s, S)

OwnershipSpec == OwnershipInit /\ [][OwnershipNext]_ownershipVars
=============================================================================
