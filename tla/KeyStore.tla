------------------------------ MODULE KeyStore ------------------------------
(***************************************************************************)
(* What the key service promises its clients, without threads, connections  *)
(* or a lock: each client has at most one call open; a call takes effect at *)
(* one moment between being made and being answered, on a store in which    *)
(* the first write of a key wins; the client hears the result of its own    *)
(* call. A call may stay open for ever, before or after its effect.         *)
(*                                                                          *)
(* A call served while another thread was at the map (`broken') has any     *)
(* result and leaves anything in the store.                                 *)
(***************************************************************************)
EXTENDS Integers, Sequences

CONSTANTS Clients, Keys, Vals, NoVal, Calls, Results, Idle

VARIABLES
  store,   \* key -> value or NoVal
  call,    \* client -> Idle, an open call, or a call with its result
  answer,  \* client -> the last result it heard
  broken

storeVars == <<store, call, answer, broken>>

Open(c)      == [st |-> "open", call |-> c]
Served(c, r) == [st |-> "served", call |-> c, result |-> r]

StoreInit ==
  /\ store = [key \in Keys |-> NoVal]
  /\ call = [k \in Clients |-> Idle]
  /\ answer = [k \in Clients |-> Idle]
  /\ broken = FALSE

Make(k, c) ==
  /\ call[k] = Idle
  /\ call' = [call EXCEPT ![k] = Open(c)]
  /\ UNCHANGED <<store, answer, broken>>

\* A call to which the store does not matter.
Echo(c)   == c.method = "ping"
Refuse(c) == c.method = "write" /\ Len(c.data) # 2
Note(c)   == c.method = "quit"

\* The result of a call and its effect on the store.
Result(c) ==
  CASE Echo(c)           -> [status |-> "Ok", data |-> c.data]
    [] Refuse(c)         -> [status |-> "BadArg", data |-> <<>>]
    [] Note(c)           -> [status |-> "Ok", data |-> <<>>]
    [] c.method = "read" ->
         IF store[c.data[1]] = NoVal
         THEN [status |-> "NotFound", data |-> <<>>]
         ELSE [status |-> "Ok", data |-> <<store[c.data[1]]>>]
    [] OTHER             -> [status |-> "Ok", data |-> <<>>]

Effect(c) ==
  IF c.method = "write" /\ ~Refuse(c) /\ store[c.data[1]] = NoVal
  THEN [store EXCEPT ![c.data[1]] = c.data[2]]
  ELSE store

Serve(k) ==
  /\ call[k] # Idle
  /\ call[k].st = "open"
  /\ LET c == call[k].call
     IN  /\ c.method \in {"ping", "write", "read", "quit"}
         /\ call' = [call EXCEPT ![k] = Served(c, Result(c))]
         /\ store' = Effect(c)
  /\ UNCHANGED <<answer, broken>>

Hear(k) ==
  /\ call[k] # Idle
  /\ call[k].st = "served"
  /\ answer' = [answer EXCEPT ![k] = call[k].result]
  /\ call' = [call EXCEPT ![k] = Idle]
  /\ UNCHANGED <<store, broken>>

\* Two threads at the map at once: anything may be stored and found.
ServeRaced(k) ==
  /\ call[k] # Idle
  /\ call[k].st = "open"
  /\ \E r \in Results : call' = [call EXCEPT ![k] = Served(call[k].call, r)]
  /\ store' \in [Keys -> Vals \cup {NoVal}]
  /\ broken' = TRUE
  /\ UNCHANGED answer

StoreNext ==
  \E k \in Clients :
    (\E c \in Calls : Make(k, c)) \/ Serve(k) \/ ServeRaced(k) \/ Hear(k)

StoreSpec == StoreInit /\ [][StoreNext]_storeVars
=============================================================================
