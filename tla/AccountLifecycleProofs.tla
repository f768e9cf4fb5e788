----------------------- MODULE AccountLifecycleProofs -----------------------
(***************************************************************************)
(* The promises of the account connection for any owners, accounts, flows, *)
(* calls, reports and budgets.                                             *)
(*                                                                         *)
(* Calls carry what they read across provider requests, so each promise    *)
(* needs what the calls carry: a call that will store a token has one      *)
(* (Carried), and a call past consume_flow carries a flow that is spent    *)
(* and that no other call past it carries (Spent).  The matrix is current  *)
(* only because a connected account has a credential for store_refresh to  *)
(* update (Kept).                                                          *)
(***************************************************************************)
EXTENDS AccountLifecycle, TLAPS

\* A call has the fields of Idle.
Shaped(x) ==
    x = [step |-> x.step, owner |-> x.owner, identity |-> x.identity, flow |-> x.flow,
         token |-> x.token, seen |-> x.seen, ordinal |-> x.ordinal, retries |-> x.retries,
         saw |-> x.saw]

\* The steps at which a call holds the token it will store.
Holding == {"discover", "permissions", "lookup", "connect", "store"}

\* What a call carries.
Sound(x) == Shaped(x) /\ (x.step \in Holding => x.token \in Nat \ {0})

Carried ==
    /\ issued \in Nat
    /\ call = [k \in Calls |-> call[k]]
    /\ \A k \in Calls : Sound(call[k])

\* The flow a call names exists, and past consume_flow it is spent, the
\* caller's own, and carried by no other call past consume_flow.
Gone == {"consumed", "deleted"}
Spent ==
    /\ flow \in [Flows -> [owner: Owners \cup {None},
                           state: {"none", "open", "expired", "consumed", "deleted"}]]
    /\ \A k \in Calls : connecting(k) =>
         /\ call[k].flow \in Flows /\ flow[call[k].flow].state # "none"
         /\ call[k].step # "consume" =>
              /\ flow[call[k].flow].state \in Gone
              /\ flow[call[k].flow].owner = call[k].owner
    /\ FlowExchangedOnce

\* A connected account has a credential; the matrix and a revoked account are
\* as promised.
Kept ==
    /\ account = [i \in Identities |-> account[i]]
    /\ \A i \in Identities : account[i] = [owner |-> account[i].owner,
                                           status |-> account[i].status]
    /\ credential \in [Identities -> [row: Nat, token: Nat]]
    /\ matrix = [i \in Identities |-> matrix[i]]
    /\ \A i \in Identities : account[i].status = "connected" => credential[i].token # 0
    /\ RevokedIsScrubbed
    /\ CapabilityCurrent

IInv == Carried /\ Spent /\ Kept

-----------------------------------------------------------------------------
(* Assignments to one field of a call *)

\* An assignment to step keeps the shape of a call and its other fields.
LEMMA AssignedStep ==
    ASSUME NEW y, Shaped(y), NEW v
    PROVE  /\ Shaped([y EXCEPT !.step = v])
           /\ [y EXCEPT !.step = v].step = v /\ [y EXCEPT !.step = v].owner = y.owner
           /\ [y EXCEPT !.step = v].flow = y.flow /\ [y EXCEPT !.step = v].token = y.token
BY DEF Shaped

\* An assignment to owner keeps the shape of a call and its other fields.
LEMMA AssignedOwner ==
    ASSUME NEW y, Shaped(y), NEW v
    PROVE  /\ Shaped([y EXCEPT !.owner = v])
           /\ [y EXCEPT !.owner = v].step = y.step /\ [y EXCEPT !.owner = v].owner = v
           /\ [y EXCEPT !.owner = v].flow = y.flow /\ [y EXCEPT !.owner = v].token = y.token
BY DEF Shaped

\* An assignment to identity keeps the shape of a call and its other fields.
LEMMA AssignedIdentity ==
    ASSUME NEW y, Shaped(y), NEW v
    PROVE  /\ Shaped([y EXCEPT !.identity = v])
           /\ [y EXCEPT !.identity = v].step = y.step /\ [y EXCEPT !.identity = v].owner = y.owner
           /\ [y EXCEPT !.identity = v].flow = y.flow /\ [y EXCEPT !.identity = v].token = y.token
BY DEF Shaped

\* An assignment to flow keeps the shape of a call and its other fields.
LEMMA AssignedFlow ==
    ASSUME NEW y, Shaped(y), NEW v
    PROVE  /\ Shaped([y EXCEPT !.flow = v])
           /\ [y EXCEPT !.flow = v].step = y.step /\ [y EXCEPT !.flow = v].owner = y.owner
           /\ [y EXCEPT !.flow = v].flow = v /\ [y EXCEPT !.flow = v].token = y.token
BY DEF Shaped

\* An assignment to token keeps the shape of a call and its other fields.
LEMMA AssignedToken ==
    ASSUME NEW y, Shaped(y), NEW v
    PROVE  /\ Shaped([y EXCEPT !.token = v])
           /\ [y EXCEPT !.token = v].step = y.step /\ [y EXCEPT !.token = v].owner = y.owner
           /\ [y EXCEPT !.token = v].flow = y.flow /\ [y EXCEPT !.token = v].token = v
BY DEF Shaped

\* An assignment to seen keeps the shape of a call and its other fields.
LEMMA AssignedSeen ==
    ASSUME NEW y, Shaped(y), NEW v
    PROVE  /\ Shaped([y EXCEPT !.seen = v])
           /\ [y EXCEPT !.seen = v].step = y.step /\ [y EXCEPT !.seen = v].owner = y.owner
           /\ [y EXCEPT !.seen = v].flow = y.flow /\ [y EXCEPT !.seen = v].token = y.token
BY DEF Shaped

\* An assignment to ordinal keeps the shape of a call and its other fields.
LEMMA AssignedOrdinal ==
    ASSUME NEW y, Shaped(y), NEW v
    PROVE  /\ Shaped([y EXCEPT !.ordinal = v])
           /\ [y EXCEPT !.ordinal = v].step = y.step /\ [y EXCEPT !.ordinal = v].owner = y.owner
           /\ [y EXCEPT !.ordinal = v].flow = y.flow /\ [y EXCEPT !.ordinal = v].token = y.token
BY DEF Shaped

\* An assignment to retries keeps the shape of a call and its other fields.
LEMMA AssignedRetries ==
    ASSUME NEW y, Shaped(y), NEW v
    PROVE  /\ Shaped([y EXCEPT !.retries = v])
           /\ [y EXCEPT !.retries = v].step = y.step /\ [y EXCEPT !.retries = v].owner = y.owner
           /\ [y EXCEPT !.retries = v].flow = y.flow /\ [y EXCEPT !.retries = v].token = y.token
BY DEF Shaped

\* An assignment to saw keeps the shape of a call and its other fields.
LEMMA AssignedSaw ==
    ASSUME NEW y, Shaped(y), NEW v
    PROVE  /\ Shaped([y EXCEPT !.saw = v])
           /\ [y EXCEPT !.saw = v].step = y.step /\ [y EXCEPT !.saw = v].owner = y.owner
           /\ [y EXCEPT !.saw = v].flow = y.flow /\ [y EXCEPT !.saw = v].token = y.token
BY DEF Shaped

-----------------------------------------------------------------------------
(* What a step does to the calls and the flows *)

Continues(k) ==
    \E x : /\ Sound(x) /\ x.flow = call[k].flow /\ x.owner = call[k].owner
           /\ call[k].step # "consume"
           /\ call' = [call EXCEPT ![k] = x]

Begins(k) ==
    \E x : /\ Sound(x) /\ x.step = "consume"
           /\ x.flow \in Flows /\ flow[x.flow].state # "none"
           /\ call' = [call EXCEPT ![k] = x]

Ends(k) ==
    \E x : Sound(x) /\ x.flow = None /\ call' = [call EXCEPT ![k] = x]

\* A spent flow stays spent and its owner's.
FlowsKept ==
    /\ flow' \in [Flows -> [owner: Owners \cup {None},
                            state: {"none", "open", "expired", "consumed", "deleted"}]]
    /\ \A f \in Flows :
         /\ flow[f].state # "none" => flow'[f].state # "none"
         /\ flow[f].state \in Gone => flow'[f].state \in Gone /\ flow'[f].owner = flow[f].owner

\* An idle call is sound.
LEMMA IdleSound == Sound(Idle) /\ Idle.flow = None /\ Idle.step = "idle" /\ Idle.token = 0
BY DEF Sound, Shaped, Idle, Holding

\* What the calls carry after one of them is replaced.
LEMMA CarriedStep ==
    ASSUME Carried, NEW k \in Calls, NEW x, Sound(x), call' = [call EXCEPT ![k] = x],
           issued' \in Nat
    PROVE  /\ Carried'
           /\ call'[k] = x /\ \A l \in Calls \ {k} : call'[l] = call[l]
<1>1. call = [l \in Calls |-> call[l]]
  BY DEF Carried
<1>2. call'[k] = x /\ \A l \in Calls \ {k} : call'[l] = call[l]
  BY <1>1
<1>3. call' = [l \in Calls |-> call'[l]]
  BY <1>1
<1>4. \A l \in Calls : Sound(call'[l])
  BY <1>2 DEF Carried
<1> QED
  BY <1>2, <1>3, <1>4 DEF Carried, Sound, Shaped

\* The flows the calls carry after a step that consumes none.
LEMMA SpentStep ==
    ASSUME Carried, Spent, FlowsKept, NEW k \in Calls,
           Continues(k) \/ Begins(k) \/ Ends(k), issued' \in Nat
    PROVE  Carried' /\ Spent'
<1>1. PICK x : /\ Sound(x) /\ call' = [call EXCEPT ![k] = x]
               /\ \/ x.flow = None
                  \/ x.step = "consume" /\ x.flow \in Flows /\ flow[x.flow].state # "none"
                  \/ x.flow = call[k].flow /\ x.owner = call[k].owner /\ call[k].step # "consume"
  BY DEF Continues, Begins, Ends
<1>2. Carried' /\ call'[k] = x /\ \A l \in Calls \ {k} : call'[l] = call[l]
  BY <1>1, CarriedStep, ZenonT(60)
<1>3. \A l \in Calls : call'[l].flow # None =>
        /\ call'[l].flow \in Flows /\ flow'[call'[l].flow].state # "none"
        /\ call'[l].step # "consume" =>
             /\ flow'[call'[l].flow].state \in Gone
             /\ flow'[call'[l].flow].owner = call'[l].owner
  BY <1>1, <1>2 DEF Spent, connecting, FlowsKept
<1>4. \A l, m \in Calls : l # m /\ call'[l].flow # None /\ call'[l].step # "consume"
                               /\ call'[m].flow = call'[l].flow => call'[m].step = "consume"
  <2> SUFFICES ASSUME NEW l \in Calls, NEW m \in Calls, l # m, call'[l].flow # None,
                      call'[l].step # "consume", call'[m].flow = call'[l].flow
               PROVE  call'[m].step = "consume"
    OBVIOUS
  <2>1. \A a, b \in Calls : a # b /\ call[a].flow # None /\ call[a].step # "consume"
                                 /\ call[b].flow = call[a].flow => call[b].step = "consume"
    BY DEF Spent, FlowExchangedOnce, connecting
  <2>2. CASE l = k
    <3>1. x.flow = call[k].flow /\ call[k].step # "consume" /\ call[k].flow # None
      BY <1>1, <1>2, <2>2
    <3> QED
      BY <1>2, <2>1, <2>2, <3>1
  <2>3. CASE m = k
    BY <1>1, <1>2, <2>1, <2>3
  <2>4. CASE l # k /\ m # k
    BY <1>2, <2>1, <2>4
  <2> QED
    BY <2>2, <2>3, <2>4
<1>5. FlowExchangedOnce'
  BY <1>3, <1>4 DEF FlowExchangedOnce, connecting
<1>6. Spent'
  BY <1>3, <1>5 DEF Spent, connecting, FlowsKept
<1> QED
  BY <1>2, <1>6

\* A step that changes no call.
LEMMA SpentKept ==
    ASSUME Carried, Spent, FlowsKept, call' = call, issued' = issued
    PROVE  Carried' /\ Spent'
<1>1. Carried'
  BY DEF Carried, Sound, Shaped
<1>2. FlowExchangedOnce'
  BY DEF Spent, FlowExchangedOnce, connecting, FlowsKept
<1>3. Spent'
  BY <1>2 DEF Spent, connecting, FlowsKept
<1> QED
  BY <1>1, <1>3

\* Of the calls that carry a flow only the one that finds it open gets past
\* consume_flow.
LEMMA Consuming ==
    ASSUME Carried, Spent, NEW k \in Calls, consume_flow(k)
    PROVE  Carried' /\ Spent'
<1> DEFINE f == call[k].flow
<1>0. issued' \in Nat /\ Sound(call[k]) /\ call[k].step = "consume"
  BY DEF Carried, consume_flow
<1>1. CASE flow[f] # [owner |-> call[k].owner, state |-> "open"]
  <2>1. call' = [call EXCEPT ![k] = Idle] /\ flow' = flow
    BY <1>1 DEF consume_flow, return
  <2>2. Ends(k)
    BY <2>1, IdleSound, ZenonT(60) DEF Ends
  <2>3. FlowsKept
    BY <2>1 DEF FlowsKept, Spent
  <2> QED
    BY <1>0, <2>2, <2>3, SpentStep
<1>2. CASE flow[f] = [owner |-> call[k].owner, state |-> "open"] /\ f = None
  <2> DEFINE x == [call[k] EXCEPT !.step = "exchange"]
  <2>1. call' = [call EXCEPT ![k] = x] /\ flow' = [flow EXCEPT ![f].state = "consumed"]
    BY <1>2 DEF consume_flow, goto
  <2>2. Sound(x) /\ x.flow = None
    BY <1>0, <1>2, AssignedStep DEF Sound, Holding
  <2>3. FlowsKept
    BY <1>2, <2>1, ZenonT(60) DEF FlowsKept, Spent, Gone
  <2> HIDE DEF x
  <2>4. Ends(k)
    BY <2>1, <2>2, ZenonT(60) DEF Ends
  <2> QED
    BY <1>0, <2>3, <2>4, SpentStep
<1>3. CASE flow[f] = [owner |-> call[k].owner, state |-> "open"] /\ f # None
  <2> DEFINE x == [call[k] EXCEPT !.step = "exchange"]
  <2>1. call' = [call EXCEPT ![k] = x] /\ flow' = [flow EXCEPT ![f].state = "consumed"]
    BY <1>3 DEF consume_flow, goto
  <2>2. Sound(x) /\ x.flow = f /\ x.owner = call[k].owner /\ x.step = "exchange"
    BY <1>0, AssignedStep DEF Sound, Holding
  <2> HIDE DEF x
  <2>3. Carried' /\ call'[k] = x /\ \A l \in Calls \ {k} : call'[l] = call[l]
    BY <1>0, <2>1, <2>2, CarriedStep, ZenonT(60)
  <2>4. f \in Flows
    BY <1>3 DEF Spent, connecting
  <2>5. FlowsKept /\ flow'[f].state = "consumed" /\ flow'[f].owner = call[k].owner
    BY <1>3, <2>1, <2>4 DEF FlowsKept, Spent, Gone
  <2>6. \A l \in Calls : call[l].flow = f => call[l].step = "consume"
    BY <1>3 DEF Spent, connecting, Gone
  <2>7. \A l \in Calls : call'[l].flow # None =>
          /\ call'[l].flow \in Flows /\ flow'[call'[l].flow].state # "none"
          /\ call'[l].step # "consume" =>
               /\ flow'[call'[l].flow].state \in Gone
               /\ flow'[call'[l].flow].owner = call'[l].owner
    <3> SUFFICES ASSUME NEW l \in Calls, call'[l].flow # None
                 PROVE  /\ call'[l].flow \in Flows /\ flow'[call'[l].flow].state # "none"
                        /\ call'[l].step # "consume" =>
                             /\ flow'[call'[l].flow].state \in Gone
                             /\ flow'[call'[l].flow].owner = call'[l].owner
      OBVIOUS
    <3>1. CASE l = k
      BY <2>2, <2>3, <2>4, <2>5, <3>1 DEF Gone
    <3>2. CASE l # k
      BY <2>3, <2>5, <3>2 DEF Spent, connecting, FlowsKept
    <3> QED
      BY <3>1, <3>2
  <2>8. \A l, m \in Calls : l # m /\ call'[l].flow # None /\ call'[l].step # "consume"
                                 /\ call'[m].flow = call'[l].flow => call'[m].step = "consume"
    <3>1. \A a, b \in Calls : a # b /\ call[a].flow # None /\ call[a].step # "consume"
                                   /\ call[b].flow = call[a].flow => call[b].step = "consume"
      BY DEF Spent, FlowExchangedOnce, connecting
    <3> QED
      BY <2>2, <2>3, <2>6, <3>1
  <2>9. FlowExchangedOnce'
    BY <2>7, <2>8, SMTT(60) DEF FlowExchangedOnce, connecting
  <2>10. Spent'
    BY <2>5, <2>7, <2>9 DEF Spent, connecting, FlowsKept
  <2> QED
    BY <2>3, <2>10
<1> QED
  BY <1>1, <1>2, <1>3

-----------------------------------------------------------------------------
(* The steps of a call *)

\* A call that returns carries nothing.
LEMMA Returning ==
    ASSUME NEW k \in Calls, return(k)
    PROVE  Ends(k)
BY IdleSound, ZenonT(60) DEF return, Ends

\* A call that goes on keeps what it carries.
LEMMA GoingOn ==
    ASSUME Carried, NEW k \in Calls, NEW s, goto(k, s), call[k].step # "consume",
           s \in Holding => call[k].step \in Holding
    PROVE  Continues(k)
<1> DEFINE x == [call[k] EXCEPT !.step = s]
<1>0. Sound(call[k])
  BY DEF Carried
<1>1. call' = [call EXCEPT ![k] = x]
  BY DEF goto
<1>2. Sound(x) /\ x.flow = call[k].flow /\ x.owner = call[k].owner
  BY <1>0, AssignedStep DEF Sound
<1> HIDE DEF x
<1> QED
  BY <1>1, <1>2, ZenonT(60) DEF Continues

\* A call that was issued a token carries it to the discovery.
LEMMA Issuing ==
    ASSUME Carried, NEW k \in Calls, exchange_code(k) \/ refresh_token(k)
    PROVE  Continues(k) /\ issued' \in Nat
<1>1. /\ call[k].step # "consume" /\ issued' = issued + 1 /\ issued \in Nat
      /\ Sound(call[k])
  BY SMTT(60) DEF exchange_code, refresh_token, Carried
<1>2. PICK n : call' = [call EXCEPT ![k] =
                 [@ EXCEPT !.step = "discover", !.token = issued + 1, !.ordinal = n,
                           !.retries = Retries]]
  BY ZenonT(60) DEF exchange_code, refresh_token
<1> DEFINE y1 == [call[k] EXCEPT !.step = "discover"]
           y2 == [y1 EXCEPT !.token = issued + 1]
           y3 == [y2 EXCEPT !.ordinal = n]
           x == [y3 EXCEPT !.retries = Retries]
<1>3. call' = [call EXCEPT ![k] = x]
  BY <1>2
<1>4. Shaped(y1) /\ y1.flow = call[k].flow /\ y1.owner = call[k].owner
  BY <1>1, AssignedStep DEF Sound
<1> HIDE DEF y1
<1>5. Shaped(y2) /\ y2.flow = call[k].flow /\ y2.owner = call[k].owner /\ y2.token = issued + 1
  BY <1>4, AssignedToken
<1> HIDE DEF y2
<1>6. Shaped(y3) /\ y3.flow = call[k].flow /\ y3.owner = call[k].owner /\ y3.token = issued + 1
  BY <1>5, AssignedOrdinal
<1> HIDE DEF y3
<1>7. Shaped(x) /\ x.flow = call[k].flow /\ x.owner = call[k].owner /\ x.token = issued + 1
  BY <1>6, AssignedRetries
<1> HIDE DEF x
<1>8. Sound(x)
  BY <1>1, <1>7 DEF Sound
<1>9. Continues(k)
  BY <1>1, <1>3, <1>7, <1>8, ZenonT(60) DEF Continues
<1>10. issued' \in Nat
  BY <1>1
<1> QED
  BY <1>9, <1>10

\* The discovery keeps the token.
LEMMA Discovering ==
    ASSUME Carried, NEW k \in Calls, discover_account(k) \/ discover_permissions(k)
    PROVE  Continues(k)
<1>1. call[k].step # "consume" /\ call[k].step \in Holding /\ Sound(call[k])
  BY DEF discover_account, discover_permissions, Carried, Holding
<1>2. call[k].token \in Nat \ {0} /\ Shaped(call[k])
  BY <1>1 DEF Sound
<1>3. CASE discover_account(k)
  <2>1. PICK n, t : call' = [call EXCEPT ![k] =
                 [@ EXCEPT !.step = "permissions", !.ordinal = n, !.retries = Retries,
                           !.seen = t]]
    BY <1>3 DEF discover_account
  <2> DEFINE y1 == [call[k] EXCEPT !.step = "permissions"]
             y2 == [y1 EXCEPT !.ordinal = n]
             y3 == [y2 EXCEPT !.retries = Retries]
             x == [y3 EXCEPT !.seen = t]
  <2>2. call' = [call EXCEPT ![k] = x]
    BY <2>1
  <2>3. /\ Shaped(y1) /\ y1.flow = call[k].flow /\ y1.owner = call[k].owner
        /\ y1.token = call[k].token
    BY <1>2, AssignedStep
  <2> HIDE DEF y1
  <2>4. /\ Shaped(y2) /\ y2.flow = call[k].flow /\ y2.owner = call[k].owner
        /\ y2.token = call[k].token
    BY <2>3, AssignedOrdinal
  <2> HIDE DEF y2
  <2>5. /\ Shaped(y3) /\ y3.flow = call[k].flow /\ y3.owner = call[k].owner
        /\ y3.token = call[k].token
    BY <2>4, AssignedRetries
  <2> HIDE DEF y3
  <2>6. /\ Shaped(x) /\ x.flow = call[k].flow /\ x.owner = call[k].owner
        /\ x.token = call[k].token
    BY <2>5, AssignedSeen, SMTT(60)
  <2> HIDE DEF x
  <2> QED
    BY <1>1, <1>2, <2>2, <2>6, ZenonT(60) DEF Continues, Sound
<1>4. CASE discover_permissions(k)
  <2>1. PICK s, n, t : call' = [call EXCEPT ![k] =
                         [@ EXCEPT !.step = s, !.ordinal = n, !.seen = t]]
    BY <1>4 DEF discover_permissions
  <2> DEFINE y1 == [call[k] EXCEPT !.step = s]
             y2 == [y1 EXCEPT !.ordinal = n]
             x == [y2 EXCEPT !.seen = t]
  <2>2. call' = [call EXCEPT ![k] = x]
    BY <2>1
  <2>3. /\ Shaped(y1) /\ y1.flow = call[k].flow /\ y1.owner = call[k].owner
        /\ y1.token = call[k].token
    BY <1>2, AssignedStep, SMTT(60)
  <2> HIDE DEF y1
  <2>4. /\ Shaped(y2) /\ y2.flow = call[k].flow /\ y2.owner = call[k].owner
        /\ y2.token = call[k].token
    BY <2>3, AssignedOrdinal
  <2> HIDE DEF y2
  <2>5. /\ Shaped(x) /\ x.flow = call[k].flow /\ x.owner = call[k].owner
        /\ x.token = call[k].token
    BY <2>4, AssignedSeen
  <2> HIDE DEF x
  <2> QED
    BY <1>1, <1>2, <2>2, <2>5, ZenonT(60) DEF Continues, Sound
<1> QED
  BY <1>3, <1>4

\* A failed request ends the call, retries it or turns it to the account.
LEMMA Failing ==
    ASSUME Carried, NEW k \in Calls, NEW class, provider_fails(k, class)
    PROVE  Continues(k) \/ Ends(k)
<1>1. call[k].step # "consume" /\ Sound(call[k])
  BY DEF provider_fails, Carried
<1>2. CASE goto(k, "reauthorize")
  BY <1>1, <1>2, GoingOn DEF Holding
<1>3. CASE return(k)
  BY <1>3, Returning
<1>4. ASSUME NEW n, NEW r, call' = [call EXCEPT ![k] = [@ EXCEPT !.ordinal = n, !.retries = r]]
      PROVE  Continues(k)
  <2> DEFINE y == [call[k] EXCEPT !.ordinal = n]
             x == [y EXCEPT !.retries = r]
  <2>1. call' = [call EXCEPT ![k] = x]
    BY <1>4
  <2>2. /\ Shaped(y) /\ y.flow = call[k].flow /\ y.owner = call[k].owner
        /\ y.token = call[k].token /\ y.step = call[k].step
    BY <1>1, AssignedOrdinal DEF Sound
  <2> HIDE DEF y
  <2>3. /\ Shaped(x) /\ x.flow = call[k].flow /\ x.owner = call[k].owner
        /\ x.token = call[k].token /\ x.step = call[k].step
    BY <2>2, AssignedRetries
  <2> HIDE DEF x
  <2> QED
    BY <1>1, <2>1, <2>3, ZenonT(60) DEF Continues, Sound
<1>5. \/ goto(k, "reauthorize") \/ return(k)
      \/ \E n, r : call' = [call EXCEPT ![k] = [@ EXCEPT !.ordinal = n, !.retries = r]]
  BY ZenonT(60) DEF provider_fails
<1> QED
  BY <1>2, <1>3, <1>4, <1>5, ZenonT(60)

\* The statement that sees the credential keeps the call's flow.
LEMMA Seeing ==
    ASSUME Carried, NEW k \in Calls, see_credential(k)
    PROVE  Continues(k)
<1>1. call[k].step # "consume" /\ Shaped(call[k])
  BY SMTT(60) DEF see_credential, Carried, Sound
<1>2. PICK c : call' = [call EXCEPT ![k] = [@ EXCEPT !.step = "unauthorized", !.saw = c]]
  BY DEF see_credential
<1> DEFINE y == [call[k] EXCEPT !.step = "unauthorized"]
           x == [y EXCEPT !.saw = c]
<1>3. call' = [call EXCEPT ![k] = x]
  BY <1>2
<1>4. /\ Shaped(y) /\ y.flow = call[k].flow /\ y.owner = call[k].owner
      /\ y.step = "unauthorized"
  BY <1>1, AssignedStep
<1> HIDE DEF y
<1>5. /\ Shaped(x) /\ x.flow = call[k].flow /\ x.owner = call[k].owner
      /\ x.step = "unauthorized"
  BY <1>4, AssignedSaw
<1> HIDE DEF x
<1> QED
  BY <1>1, <1>3, <1>5, ZenonT(60) DEF Continues, Sound, Holding

\* A callback starts before consume_flow with a flow that exists, and a refresh
\* starts with none.
LEMMA Starting ==
    ASSUME NEW k \in Calls, NEW o, NEW i,
           \/ \E f \in Flows : complete_official_oauth(k, o, f, i)
           \/ refresh_official_account(k, o, i)
    PROVE  Begins(k) \/ Ends(k)
<1>0. Shaped(Idle) /\ Idle.flow = None
  BY IdleSound DEF Sound
<1>1. ASSUME NEW f \in Flows, complete_official_oauth(k, o, f, i)
      PROVE  Begins(k)
  <2> DEFINE y1 == [Idle EXCEPT !.step = "consume"]
             y2 == [y1 EXCEPT !.owner = o]
             y3 == [y2 EXCEPT !.flow = f]
             x == [y3 EXCEPT !.identity = i]
  <2>1. call' = [call EXCEPT ![k] = x] /\ flow[f].state # "none"
    BY <1>1 DEF complete_official_oauth
  <2>2. Shaped(y1) /\ y1.step = "consume"
    BY <1>0, AssignedStep
  <2> HIDE DEF y1
  <2>3. Shaped(y2) /\ y2.step = "consume"
    BY <2>2, AssignedOwner
  <2> HIDE DEF y2
  <2>4. Shaped(y3) /\ y3.step = "consume" /\ y3.flow = f
    BY <2>3, AssignedFlow
  <2> HIDE DEF y3
  <2>5. Shaped(x) /\ x.step = "consume" /\ x.flow = f
    BY <2>4, AssignedIdentity
  <2> HIDE DEF x
  <2> QED
    BY <2>1, <2>5, ZenonT(60) DEF Begins, Sound, Holding
<1>2. CASE refresh_official_account(k, o, i)
  <2> DEFINE t == credential[i].token
             y1 == [Idle EXCEPT !.step = "refresh"]
             y2 == [y1 EXCEPT !.owner = o]
             y3 == [y2 EXCEPT !.identity = i]
             x == [y3 EXCEPT !.token = t]
  <2>1. call' = [call EXCEPT ![k] = x]
    BY <1>2 DEF refresh_official_account
  <2> HIDE DEF t
  <2>2. Shaped(y1) /\ y1.step = "refresh" /\ y1.flow = None
    BY <1>0, AssignedStep
  <2> HIDE DEF y1
  <2>3. Shaped(y2) /\ y2.step = "refresh" /\ y2.flow = None
    BY <2>2, AssignedOwner
  <2> HIDE DEF y2
  <2>4. Shaped(y3) /\ y3.step = "refresh" /\ y3.flow = None
    BY <2>3, AssignedIdentity
  <2> HIDE DEF y3
  <2>5. Shaped(x) /\ x.step = "refresh" /\ x.flow = None
    BY <2>4, AssignedToken
  <2> HIDE DEF x
  <2> QED
    BY <2>1, <2>5, ZenonT(60) DEF Ends, Sound, Holding
<1> QED
  BY <1>1, <1>2

\* The flows and the calls after a step of a call.
LEMMA Calling ==
    ASSUME IInv, NEW k \in Calls,
           \/ continue(k) \/ identity_differs(k)
           \/ \E class \in {"transient", "authentication", "refused"} : provider_fails(k, class)
           \/ \E o \in Owners, i \in Identities :
                \/ \E f \in Flows : complete_official_oauth(k, o, f, i)
                \/ refresh_official_account(k, o, i)
    PROVE  Carried' /\ Spent'
<1>0. Carried /\ Spent
  BY DEF IInv
<1>1. ASSUME flow' = flow, issued' = issued, Continues(k) \/ Begins(k) \/ Ends(k)
      PROVE  Carried' /\ Spent'
  <2>1. FlowsKept
    BY <1>0, <1>1 DEF FlowsKept, Spent
  <2>2. issued' \in Nat
    BY <1>0, <1>1 DEF Carried
  <2> QED
    BY <1>0, <1>1, <2>1, <2>2, SpentStep, SMTT(60)
<1>2. CASE consume_flow(k)
  BY <1>0, <1>2, Consuming
<1>3. CASE exhausted(k)
  BY <1>1, <1>3, Returning DEF exhausted
<1>4. CASE exchange_code(k) \/ refresh_token(k)
  <2>1. FlowsKept
    BY <1>0, <1>4 DEF FlowsKept, Spent, exchange_code, refresh_token
  <2>2. Continues(k) /\ issued' \in Nat
    BY <1>0, <1>4, Issuing, SMTT(60)
  <2> QED
    BY <1>0, <2>1, <2>2, SpentStep
<1>5. CASE discover_account(k) \/ discover_permissions(k)
  BY <1>0, <1>1, <1>5, Discovering, ZenonT(60) DEF discover_account, discover_permissions
<1>6. CASE lookup_existing(k)
  <2>1. call[k].step = "lookup" /\ (goto(k, "connect") \/ return(k))
    BY <1>6, SMTT(60) DEF lookup_existing
  <2>2. Continues(k) \/ Ends(k)
    BY <1>0, <2>1, GoingOn, Returning, SMTT(60) DEF Holding
  <2> QED
    BY <1>1, <1>6, <2>2 DEF lookup_existing
<1>7. CASE store_connection(k) \/ store_refresh(k) \/ mark_reauthorization_required(k)
  BY <1>1, <1>7, Returning, SMTT(60) DEF store_connection, store_refresh, mark_reauthorization_required
<1>8. CASE see_credential(k)
  BY <1>0, <1>1, <1>8, Seeing, ZenonT(60) DEF see_credential
<1>9. CASE identity_differs(k)
  BY <1>1, <1>9, Returning DEF identity_differs
<1>10. ASSUME NEW class, provider_fails(k, class)
       PROVE  Carried' /\ Spent'
  <2>1. flow' = flow /\ issued' = issued
    BY <1>10 DEF provider_fails
  <2> QED
    BY <1>0, <1>1, <1>10, <2>1, Failing
<1>11. ASSUME NEW o, NEW i,
              \/ \E f \in Flows : complete_official_oauth(k, o, f, i)
              \/ refresh_official_account(k, o, i)
       PROVE  Carried' /\ Spent'
  <2>1. flow' = flow /\ issued' = issued
    BY <1>11, ZenonT(60) DEF complete_official_oauth, refresh_official_account
  <2> QED
    BY <1>1, <1>11, <2>1, Starting, SMTT(60)
<1> QED
  BY <1>2, <1>3, <1>4, <1>5, <1>6, <1>7, <1>8, <1>9, <1>10, <1>11, ZenonT(60) DEF continue

-----------------------------------------------------------------------------
(* The rows *)

\* Without external write consent reconcile offers reads only.
LEMMA OffersReads ==
    ASSUME NEW seen, NEW c \in Capabilities, reconcile(seen, FALSE)[c].state = "available"
    PROVE  c \in Reads
BY DEF reconcile, reconcile_one, row

\* all_unavailable offers nothing.
LEMMA OffersNothing ==
    ASSUME NEW why, NEW c \in Capabilities
    PROVE  all_unavailable(why)[c].state # "available"
BY DEF all_unavailable, row

\* A step that changes no row.
LEMMA KeptUnchanged ==
    ASSUME Kept, UNCHANGED <<account, credential, matrix>>
    PROVE  Kept'
BY SMTT(60) DEF Kept, RevokedIsScrubbed, CapabilityCurrent, available

\* Rows of one account that keep the promises.
Promised(a, c, m) ==
    /\ a = [owner |-> a.owner, status |-> a.status]
    /\ c \in [row: Nat, token: Nat]
    /\ a.status = "connected" => c.token # 0
    /\ a.status = "revoked" => c = NoCredential
    /\ \A p \in Capabilities : m.rows[p].state = "available" =>
         a.status = "connected" /\ c.token = m.observed /\ m.observed # 0 /\ p \in Reads

\* One account gets new rows that keep the promises.
LEMMA KeptStep ==
    ASSUME Kept, NEW i \in Identities, NEW a, NEW c, NEW m, Promised(a, c, m),
           account' = [account EXCEPT ![i] = a],
           credential' = [credential EXCEPT ![i] = c],
           matrix' = [matrix EXCEPT ![i] = m]
    PROVE  Kept'
<1>1. /\ account' = [j \in Identities |-> account'[j]]
      /\ account'[i] = a /\ \A j \in Identities \ {i} : account'[j] = account[j]
  BY SMTT(60) DEF Kept
<1>2. /\ credential' \in [Identities -> [row: Nat, token: Nat]]
      /\ credential'[i] = c /\ \A j \in Identities \ {i} : credential'[j] = credential[j]
  BY DEF Kept, Promised
<1>3. /\ matrix' = [j \in Identities |-> matrix'[j]]
      /\ matrix'[i] = m /\ \A j \in Identities \ {i} : matrix'[j] = matrix[j]
  BY ZenonT(60) DEF Kept
<1>4. \A j \in Identities :
        /\ account'[j].status = "connected" => credential'[j].token # 0
        /\ account'[j] = [owner |-> account'[j].owner, status |-> account'[j].status]
  BY <1>1, <1>2 DEF Kept, Promised
<1>5. RevokedIsScrubbed'
  BY <1>1, <1>2, <1>3 DEF Kept, RevokedIsScrubbed, available, Promised
<1>6. CapabilityCurrent'
  BY <1>1, <1>2, <1>3 DEF Kept, CapabilityCurrent, available, Promised
<1> QED
  BY <1>1, <1>2, <1>3, <1>4, <1>5, <1>6, ZenonT(60) DEF Kept

\* A step of a call whose identity has no row writes nothing.
LEMMA KeptElsewhere ==
    ASSUME Kept, NEW i, i \notin Identities, NEW a, NEW c, NEW m,
           account' = [account EXCEPT ![i] = a],
           credential' = [credential EXCEPT ![i] = c],
           matrix' = [matrix EXCEPT ![i] = m]
    PROVE  UNCHANGED <<account, credential, matrix>>
BY ZenonT(60) DEF Kept

\* store_connection writes the three rows together.
LEMMA Connecting ==
    ASSUME Carried, Kept, NEW k \in Calls, store_connection(k)
    PROVE  Kept'
<1> DEFINE i == call[k].identity
           t == call[k].token
           a == [owner |-> call[k].owner, status |-> "connected"]
           c == [row |-> t, token |-> t]
           m == [rows |-> reconcile(call[k].seen, FALSE), observed |-> t]
<1>1. CASE ~owns(k, i)
  BY <1>1, KeptUnchanged DEF store_connection
<1>2. CASE owns(k, i)
  <2>1. /\ account' = [account EXCEPT ![i] = a] /\ credential' = [credential EXCEPT ![i] = c]
        /\ matrix' = [matrix EXCEPT ![i] = m]
    BY <1>2, SMTT(60) DEF store_connection, reconcile_account_capabilities
  <2>2. t \in Nat /\ t # 0
    BY DEF store_connection, Carried, Sound, Holding
  <2>3. a = [owner |-> a.owner, status |-> a.status] /\ a.status = "connected"
    OBVIOUS
  <2>4. c \in [row: Nat, token: Nat] /\ c.token = t
    BY <2>2
  <2>5. m.observed = t /\ \A p \in Capabilities : m.rows[p].state = "available" => p \in Reads
    BY OffersReads, ZenonT(60)
  <2> HIDE DEF a, c, m, t, i
  <2>6. CASE i \in Identities
    <3>1. Promised(a, c, m)
      BY <2>2, <2>3, <2>4, <2>5 DEF Promised
    <3> QED
      BY <2>1, <2>6, <3>1, KeptStep, ZenonT(60)
  <2>7. CASE i \notin Identities
    BY <2>1, <2>7, KeptElsewhere, KeptUnchanged, ZenonT(60)
  <2> QED
    BY <2>6, <2>7, SMTT(60)
<1> QED
  BY <1>1, <1>2

\* store_refresh replaces the token of a connected account and observes it.
LEMMA Refreshing ==
    ASSUME Carried, Kept, NEW k \in Calls, store_refresh(k)
    PROVE  Kept'
<1> DEFINE i == call[k].identity
           t == call[k].token
           a == account[i]
           c == [credential[i] EXCEPT !.token = t]
           m == [rows |-> reconcile(call[k].seen, FALSE), observed |-> t]
<1>1. CASE account[i] # [owner |-> call[k].owner, status |-> "connected"]
  BY <1>1, KeptUnchanged DEF store_refresh
<1>2. CASE account[i] = [owner |-> call[k].owner, status |-> "connected"] /\ i \in Identities
  <2>0. credential[i] \in [row: Nat, token: Nat] /\ credential[i] # NoCredential
    BY <1>2, SMTT(60) DEF Kept, NoCredential
  <2>1. /\ credential' = [credential EXCEPT ![i] = c]
        /\ matrix' = [matrix EXCEPT ![i] = m]
    BY <1>2, <2>0 DEF store_refresh, reconcile_account_capabilities
  <2>2. account' = [account EXCEPT ![i] = a]
    BY DEF store_refresh, Kept
  <2>3. t \in Nat /\ t # 0
    BY SMTT(60) DEF store_refresh, Carried, Sound, Holding
  <2>4. a = [owner |-> a.owner, status |-> a.status] /\ a.status = "connected"
    BY <1>2
  <2>5. c \in [row: Nat, token: Nat] /\ c.token = t
    BY <2>0, <2>3, SMTT(60)
  <2>6. m.observed = t /\ \A p \in Capabilities : m.rows[p].state = "available" => p \in Reads
    BY OffersReads, ZenonT(60)
  <2>7. i \in Identities
    BY <1>2
  <2> HIDE DEF a, c, m, t, i
  <2> QED
    <3>1. Promised(a, c, m)
      BY <2>3, <2>4, <2>5, <2>6 DEF Promised
    <3> QED
      BY <2>1, <2>2, <2>7, <3>1, KeptStep, ZenonT(60)
<1>3. CASE account[i] = [owner |-> call[k].owner, status |-> "connected"] /\ i \notin Identities
  <2>0. \E d, n : /\ credential' = [credential EXCEPT ![i] = d]
                  /\ matrix' = [matrix EXCEPT ![i] = n]
    BY <1>3, SMTT(60) DEF store_refresh, reconcile_account_capabilities
  <2>1. account' = account
    BY DEF store_refresh
  <2>2. credential' = credential /\ matrix' = matrix
    BY <1>3, <2>0 DEF Kept
  <2> QED
    BY <2>1, <2>2, KeptUnchanged
<1> QED
  BY <1>1, <1>2, <1>3

\* mark_reauthorization_required leaves an account that is not connected and
\* not revoked, with nothing available.
LEMMA Unauthorizing ==
    ASSUME Kept, NEW k \in Calls, mark_reauthorization_required(k)
    PROVE  Kept'
<1> DEFINE i == call[k].identity
           a == [owner |-> account[i].owner, status |-> "reauthorization_required"]
           c == IF credential[i].row = call[k].saw THEN NoCredential ELSE credential[i]
           m == [rows |-> all_unavailable("reauthorization_required"), observed |-> 0]
<1>1. CASE account[i].owner # call[k].owner
  BY <1>1, KeptUnchanged DEF mark_reauthorization_required
<1>2. CASE account[i].owner = call[k].owner /\ i \in Identities
  <2>1. /\ credential' = [credential EXCEPT ![i] = c]
        /\ matrix' = [matrix EXCEPT ![i] = m]
    BY <1>2 DEF mark_reauthorization_required
  <2>2. account' = [account EXCEPT ![i] = a]
    <3>1. account[i] = [owner |-> account[i].owner, status |-> account[i].status]
      BY <1>2 DEF Kept
    <3>2. [account[i] EXCEPT !.status = "reauthorization_required"] = a
      BY <3>1
    <3>3. account' = [account EXCEPT ![i] =
                        [account[i] EXCEPT !.status = "reauthorization_required"]]
      BY <1>2, SMTT(60) DEF mark_reauthorization_required
    <3> QED
      BY <3>2, <3>3, ZenonT(60)
  <2>3. c \in [row: Nat, token: Nat]
    BY <1>2 DEF Kept, NoCredential
  <2>4. a = [owner |-> a.owner, status |-> a.status] /\ a.status = "reauthorization_required"
    OBVIOUS
  <2>5. \A p \in Capabilities : m.rows[p].state # "available"
    BY OffersNothing
  <2>6. i \in Identities
    BY <1>2
  <2> HIDE DEF a, c, m, i
  <2> QED
    <3>1. Promised(a, c, m)
      BY <2>3, <2>4, <2>5 DEF Promised
    <3> QED
      BY <2>1, <2>2, <2>6, <3>1, KeptStep, ZenonT(60)
<1>3. CASE account[i].owner = call[k].owner /\ i \notin Identities
  <2>1. credential' = credential /\ matrix' = matrix /\ account' = account
    BY <1>3 DEF mark_reauthorization_required, Kept
  <2> QED
    BY <2>1, KeptUnchanged
<1> QED
  BY <1>1, <1>2, <1>3

\* A scrub leaves no credential and nothing available, and no flow reopens.
LEMMA Scrubbing ==
    ASSUME IInv, NEW i \in Identities, scrubbed(i)
    PROVE  Kept' /\ FlowsKept
<1> DEFINE a == [owner |-> account[i].owner, status |-> "revoked"]
           m == [rows |-> all_unavailable("revoked"), observed |-> 0]
<1>1. Kept'
  <2>1. /\ credential' = [credential EXCEPT ![i] = NoCredential]
        /\ matrix' = [matrix EXCEPT ![i] = m]
    BY DEF scrubbed
  <2>2. account' = [account EXCEPT ![i] = a]
    <3>1. account[i] = [owner |-> account[i].owner, status |-> account[i].status]
      BY DEF IInv, Kept
    <3>2. [account[i] EXCEPT !.status = "revoked"] = a
      BY <3>1
    <3>3. account' = [account EXCEPT ![i] = [account[i] EXCEPT !.status = "revoked"]]
      BY DEF scrubbed
    <3> QED
      BY <3>2, <3>3, ZenonT(60)
  <2>3. NoCredential \in [row: Nat, token: Nat] /\ Kept
    BY DEF NoCredential, IInv
  <2>4. a = [owner |-> a.owner, status |-> a.status] /\ a.status = "revoked"
    OBVIOUS
  <2>5. \A p \in Capabilities : m.rows[p].state # "available"
    BY OffersNothing
  <2> HIDE DEF a, m
  <2> QED
    <3>1. Promised(a, NoCredential, m)
      BY <2>3, <2>4, <2>5 DEF Promised
    <3> QED
      BY <2>1, <2>2, <2>3, <3>1, KeptStep, ZenonT(60)
<1>2. FlowsKept
  <2>1. \A f \in Flows : \/ flow'[f] = flow[f]
                         \/ flow'[f] = [flow[f] EXCEPT !.state = "deleted"]
    BY DEF scrubbed
  <2>2. flow' = [f \in Flows |-> flow'[f]]
    BY DEF scrubbed
  <2> QED
    BY <2>1, <2>2 DEF IInv, Spent, FlowsKept, Gone
<1> QED
  BY <1>1, <1>2

-----------------------------------------------------------------------------
(* Every step *)

\* The steps of calls keep the rows.
LEMMA CallsKeepRows ==
    ASSUME IInv, NEW k \in Calls,
           \/ continue(k) \/ identity_differs(k)
           \/ \E class \in {"transient", "authentication", "refused"} : provider_fails(k, class)
           \/ \E o \in Owners, i \in Identities :
                \/ \E f \in Flows : complete_official_oauth(k, o, f, i)
                \/ refresh_official_account(k, o, i)
    PROVE  Kept'
<1>0. Carried /\ Kept
  BY DEF IInv
<1>1. CASE store_connection(k)
  BY <1>0, <1>1, Connecting
<1>2. CASE store_refresh(k)
  BY <1>0, <1>2, Refreshing
<1>3. CASE mark_reauthorization_required(k)
  BY <1>0, <1>3, Unauthorizing
<1>4. CASE \/ consume_flow(k) \/ exhausted(k) \/ exchange_code(k) \/ discover_account(k)
           \/ discover_permissions(k) \/ lookup_existing(k) \/ refresh_token(k)
           \/ see_credential(k) \/ identity_differs(k)
  <2>1. UNCHANGED <<account, credential, matrix>>
    BY <1>4 DEF consume_flow, exhausted, exchange_code, discover_account,
                discover_permissions, lookup_existing, refresh_token, see_credential,
                identity_differs
  <2> QED
    BY <1>0, <2>1, KeptUnchanged, SMTT(60)
<1>5. CASE \E class \in {"transient", "authentication", "refused"} : provider_fails(k, class)
  <2>1. UNCHANGED <<account, credential, matrix>>
    BY <1>5, SMTT(60) DEF provider_fails
  <2> QED
    BY <1>0, <2>1, KeptUnchanged
<1>6. CASE \E o \in Owners, i \in Identities :
             \/ \E f \in Flows : complete_official_oauth(k, o, f, i)
             \/ refresh_official_account(k, o, i)
  <2>1. UNCHANGED <<account, credential, matrix>>
    BY <1>6, ZenonT(60) DEF complete_official_oauth, refresh_official_account
  <2> QED
    BY <1>0, <2>1, KeptUnchanged
<1> QED
  BY <1>1, <1>2, <1>3, <1>4, <1>5, <1>6 DEF continue

\* The steps outside the calls.
LEMMA Others ==
    ASSUME IInv,
           \/ \E o \in Owners : begin_official_oauth(o)
           \/ \E f \in Flows : flow_expires(f)
           \/ \E o \in Owners, i \in Identities : scrub_revoked_account(o, i)
           \/ scrub_stranded_revocations \/ open_listeners \/ restart
           \/ \E i \in Identities : provider_changes(i)
           \/ UNCHANGED vars
    PROVE  IInv'
<1>0. Carried /\ Spent /\ Kept
  BY DEF IInv
<1>1. ASSUME FlowsKept, call' = call, issued' = issued, Kept'
      PROVE  IInv'
  BY <1>0, <1>1, SpentKept DEF IInv
<1>2. ASSUME NEW o \in Owners, begin_official_oauth(o)
      PROVE  IInv'
  <2>1. PICK f \in Flows : flow[f].state = "none"
                           /\ flow' = [flow EXCEPT ![f] = [owner |-> o, state |-> "open"]]
    BY <1>2, ZenonT(60) DEF begin_official_oauth
  <2>2. FlowsKept
    BY <1>0, <2>1 DEF FlowsKept, Spent, Gone
  <2> QED
    BY <1>0, <1>1, <1>2, <2>2, KeptUnchanged DEF begin_official_oauth
<1>3. ASSUME NEW f \in Flows, flow_expires(f)
      PROVE  IInv'
  <2>1. FlowsKept
    BY <1>0, <1>3 DEF FlowsKept, Spent, Gone, flow_expires
  <2> QED
    BY <1>0, <1>1, <1>3, <2>1, KeptUnchanged, SMTT(60) DEF flow_expires
<1>4. ASSUME NEW i \in Identities, scrubbed(i), call' = call, issued' = issued
      PROVE  IInv'
  BY <1>1, <1>4, Scrubbing
<1>5. CASE restart
  <2>1. call' = [k \in Calls |-> Idle] /\ issued' = issued /\ flow' = flow
    BY <1>5 DEF restart
  <2>2. \A k \in Calls : call'[k] = Idle
    BY <2>1, SMTT(60)
  <2>3. Carried'
    BY <1>0, <2>1, <2>2, IdleSound, SMTT(60) DEF Carried, Sound, Shaped
  <2>4. Spent'
    BY <1>0, <2>1, <2>2, IdleSound DEF Spent, connecting, FlowExchangedOnce
  <2>5. Kept'
    BY <1>0, <1>5, KeptUnchanged DEF restart
  <2> QED
    BY <2>3, <2>4, <2>5 DEF IInv
<1>6. CASE open_listeners \/ (\E i \in Identities : provider_changes(i)) \/ UNCHANGED vars
  <2>1. UNCHANGED <<account, credential, matrix, flow, call, issued>>
    BY <1>6, SMTT(60) DEF open_listeners, provider_changes, vars
  <2>2. FlowsKept
    BY <1>0, <2>1, SMTT(60) DEF FlowsKept, Spent
  <2> QED
    BY <1>0, <1>1, <2>1, <2>2, KeptUnchanged, SMTT(60)
<1> QED
  BY <1>2, <1>3, <1>4, <1>5, <1>6 DEF scrub_revoked_account, scrub_stranded_revocations

\* The invariant is inductive.
LEMMA Inductive == IInv /\ [Next]_vars => IInv'
<1> SUFFICES ASSUME IInv, [Next]_vars PROVE IInv'
  OBVIOUS
<1>1. ASSUME NEW k \in Calls,
             \/ continue(k) \/ identity_differs(k)
             \/ \E class \in {"transient", "authentication", "refused"} :
                  provider_fails(k, class)
             \/ \E o \in Owners, i \in Identities :
                  \/ \E f \in Flows : complete_official_oauth(k, o, f, i)
                  \/ refresh_official_account(k, o, i)
      PROVE  IInv'
  BY <1>1, Calling, CallsKeepRows DEF IInv
<1> QED
  BY <1>1, Others DEF Next

\* The initial states satisfy the invariant.
LEMMA Initially == Init => IInv
<1> SUFFICES ASSUME Init PROVE IInv
  BY SMTT(60)
<1>1. \A k \in Calls : call[k] = Idle
  BY SMTT(60) DEF Init
<1>2. Carried
  BY <1>1, IdleSound, SMTT(60) DEF Init, Carried
<1>3. Spent
  BY <1>1, IdleSound, SMTT(60) DEF Init, Spent, connecting, FlowExchangedOnce, NoFlow
<1>4. Kept
  <2>1. \A i \in Identities :
          /\ account[i] = [owner |-> account[i].owner, status |-> account[i].status]
          /\ account[i].status \in {"none", "revoking"}
    BY DEF Init, NoAccount
  <2>2. credential \in [Identities -> [row: Nat, token: Nat]]
    BY SMTT(60) DEF Init, NoCredential
  <2>3. \A i \in Identities, c \in Capabilities : ~available(i, c)
    BY OffersNothing, SMTT(60) DEF Init, available, NoMatrix
  <2>4. account = [i \in Identities |-> account[i]] /\ matrix = [i \in Identities |-> matrix[i]]
    BY DEF Init
  <2> QED
    BY <2>1, <2>2, <2>3, <2>4, SMTT(60) DEF Kept, RevokedIsScrubbed, CapabilityCurrent
<1> QED
  BY <1>2, <1>3, <1>4 DEF IInv

\* A revoked account has no credential and offers nothing, whatever calls were
\* under way when it was scrubbed (scrub_revoked_account, store_refresh).
THEOREM RevokedStaysScrubbed == Spec => []RevokedIsScrubbed
BY Initially, Inductive, PTL DEF Spec, IInv, Kept

\* What the matrix offers was observed with the stored credential of a
\* connected account and never writes (reconcile_account_capabilities).
THEOREM CapabilitiesCurrent == Spec => []CapabilityCurrent
BY Initially, Inductive, PTL DEF Spec, IInv, Kept

\* A callback is exchanged at most once and for its own owner (consume_flow).
THEOREM FlowsExchangedOnce == Spec => []FlowExchangedOnce
BY Initially, Inductive, PTL DEF Spec, IInv, Spent

\* A change of the status keeps the owner.
LEMMA StatusKeepsOwner ==
    ASSUME Kept, NEW i, NEW s, account' = [account EXCEPT ![i].status = s]
    PROVE  \A j \in Identities : account'[j].owner = account[j].owner
<1>1. \A j \in Identities \ {i} : account'[j] = account[j]
  BY DEF Kept
<1>2. ASSUME i \in Identities
      PROVE  account'[i].owner = account[i].owner
  <2>1. account[i] = [owner |-> account[i].owner, status |-> account[i].status]
    BY <1>2 DEF Kept
  <2>2. account'[i] = [account[i] EXCEPT !.status = s]
    BY <1>2 DEF Kept
  <2> QED
    BY <2>1, <2>2
<1> QED
  BY <1>1, <1>2

\* No step changes the owner of an account that exists.
LEMMA OwnerStep ==
    ASSUME Kept, [Next]_vars
    PROVE  \A i \in Identities : account[i] # NoAccount => account'[i].owner = account[i].owner
<1>1. ASSUME NEW k \in Calls, store_connection(k)
      PROVE  \A i \in Identities : account[i] # NoAccount => account'[i].owner = account[i].owner
  <2> DEFINE a == [owner |-> call[k].owner, status |-> "connected"]
  <2>1. CASE owns(k, call[k].identity)
    <3>1. account' = [account EXCEPT ![call[k].identity] = a]
      BY <1>1, <2>1 DEF store_connection
    <3>2. a.owner = call[k].owner
      BY SMTT(60)
    <3> HIDE DEF a
    <3> QED
      BY <2>1, <3>1, <3>2, SMTT(60) DEF owns, Kept
  <2>2. CASE ~owns(k, call[k].identity)
    BY <1>1, <2>2 DEF store_connection
  <2> QED
    BY <2>1, <2>2, SMTT(60)
<1>2. ASSUME NEW k \in Calls, mark_reauthorization_required(k)
      PROVE  \A i \in Identities : account'[i].owner = account[i].owner
  <2>1. \/ account' = account
        \/ account' = [account EXCEPT ![call[k].identity].status = "reauthorization_required"]
    BY <1>2 DEF mark_reauthorization_required
  <2> QED
    BY <2>1, StatusKeepsOwner
<1>3. ASSUME NEW i \in Identities, scrubbed(i)
      PROVE  \A j \in Identities : account'[j].owner = account[j].owner
  BY <1>3, StatusKeepsOwner, SMTT(60) DEF scrubbed
<1>4. ASSUME NEW k \in Calls, continue(k) \/ identity_differs(k)
      PROVE  \/ store_connection(k) \/ mark_reauthorization_required(k) \/ account' = account
  BY <1>4, SMTT(60) DEF continue, consume_flow, exhausted, exchange_code, discover_account,
              discover_permissions, lookup_existing, refresh_token, store_refresh,
              see_credential, identity_differs
<1>5. ASSUME \/ \E k \in Calls, class \in {"transient", "authentication", "refused"} :
                  provider_fails(k, class)
             \/ \E k \in Calls, o \in Owners, i \in Identities :
                  \/ \E f \in Flows : complete_official_oauth(k, o, f, i)
                  \/ refresh_official_account(k, o, i)
             \/ \E o \in Owners : begin_official_oauth(o)
             \/ \E f \in Flows : flow_expires(f)
             \/ open_listeners \/ restart
             \/ \E i \in Identities : provider_changes(i)
             \/ UNCHANGED vars
      PROVE  account' = account
  BY <1>5, ZenonT(60) DEF provider_fails, complete_official_oauth, refresh_official_account,
              begin_official_oauth, flow_expires, open_listeners, restart,
              provider_changes, vars
<1>6. ASSUME \/ \E o \in Owners, i \in Identities : scrub_revoked_account(o, i)
             \/ scrub_stranded_revocations
      PROVE  \A j \in Identities : account'[j].owner = account[j].owner
  BY <1>3, <1>6, SMTT(60) DEF scrub_revoked_account, scrub_stranded_revocations
<1>7. CASE \E k \in Calls : continue(k) \/ identity_differs(k)
  BY <1>1, <1>2, <1>4, <1>7
<1> QED
  BY <1>5, <1>6, <1>7 DEF Next

\* Whoever connects a provider account first keeps it, through any race of
\* lookups and upserts (lookup_existing, store_connection).
THEOREM OwnerIsKept == Spec => OwnerKept
<1>1. IInv /\ [Next]_vars =>
        [\A i \in Identities : account[i] # NoAccount
                                 => account'[i].owner = account[i].owner]_vars
  BY OwnerStep DEF IInv
<1> QED
  BY <1>1, Initially, Inductive, PTL DEF Spec, OwnerKept

=============================================================================
