------------------------------ MODULE KVStore ------------------------------
(***************************************************************************)
(* The commands of the key-value store and what they do to it, without     *)
(* servers: SkipList::insert and erase as KVStateMachine::apply uses them. *)
(*                                                                         *)
(* A request is a RequestKey: a client and the number that the client gave *)
(* to its command.  Command[c][i] is the command it stands for; a retry    *)
(* carries the same number and the same command.                           *)
(***************************************************************************)
EXTENDS Naturals, Sequences

CONSTANTS
  Client,
  Key,
  Value,
  Word,      \* what operator>> extracts from a value: up to the first space
  KeyWord,   \* and from a key
  Command,   \* of each client, its commands in the order of their request ids
  Nil        \* no value, no reply, no request

PUT == "PUT"
DEL == "DEL"

CommandType ==
  [operation : {PUT}, key : Key, value : Value] \cup [operation : {DEL}, key : Key]

Success      == "Success"
ExecuteError == "ExecuteError"
WrongLeader  == "Wrong Leader"

ASSUME CommandAssumption ==
  /\ Command \in [Client -> Seq(CommandType)]
  /\ Word \in [Value -> Value] /\ KeyWord \in [Key -> Key]
  /\ Nil \notin Value /\ Nil \notin {Success, ExecuteError, WrongLeader}

Request == UNION { {c} \X (1 .. Len(Command[c])) : c \in Client }

Op(r) == Command[r[1]][r[2]]

EmptyStore == [k \in Key |-> Nil]

Stores == [Key -> Value \cup {Nil}]

\* insert(): a new node or a new value for the node that is there.
Insert(kv, k, v) == [kv EXCEPT ![k] = v]

\* erase(): what is not there stays so.
Erase(kv, k) == [kv EXCEPT ![k] = Nil]

Effect(kv, r) ==
  IF Op(r).operation = PUT THEN Insert(kv, Op(r).key, Op(r).value) ELSE Erase(kv, Op(r).key)

\* insert() returns true on both its paths, erase() only if it found the key.
Result(kv, r) ==
  IF Op(r).operation = PUT \/ kv[Op(r).key] # Nil THEN Success ELSE ExecuteError

\* The stores that loadFromJson makes of a saved one, whose keys and values it
\* extracts with >>.  Of keys that fall together the last gives the value; they
\* have no order here, so that it may be any of them.
Rereads(saved) ==
  { kv \in Stores : \A k \in Key :
      LET from == { j \in Key : saved[j] # Nil /\ KeyWord[j] = k }
      IN IF from = {} THEN kv[k] = Nil ELSE \E j \in from : kv[k] = Word[saved[j]] }

\* What the store may hold after loadFromJson.  A store that held something
\* frees its nodes and then goes on through header links that still point to
\* them: whatever it finds there.
Loads(kv, saved) == IF kv = EmptyStore THEN Rereads(saved) ELSE Stores
=============================================================================
