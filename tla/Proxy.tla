------------------------------- MODULE Proxy -------------------------------
(***************************************************************************)
(* proxy.py: calls of AttestingProxy.handle, under way at the same time on *)
(* one log, each waiting for an upstream that answers in its own time.     *)
(* The log is CrashLog with disk errors, which AttestationLog implements   *)
(* as long as one process writes: append is its Write and then Return, its *)
(* Reject, or a Break, which raises and may leave a record.  The death of  *)
(* the proxy's own process ends all its calls and is left out.             *)
(***************************************************************************)
EXTENDS Attestation

CONSTANTS Params,       \* objects that requests hold as their params
          ParamsOf,     \* the params object of the request of each call
          IdOf,         \* its id, or Absent
          Absent, Missing,
          Value,        \* contents of params, results and errors
          NonCanonical, \* those canonical.dumps refuses
          Response,     \* what upstream may return
          NotDict,
          SignerOf      \* the key of the log

ASSUME ParamsAssumption == ParamsOf \in [Call -> Params] /\ DOMAIN IdOf = Call
ASSUME ValueAssumption == NonCanonical \subseteq Value /\ Absent \notin Value

Dict == [result : Value \cup {Absent}, error : Value \cup {Absent}]
ASSUME ResponseAssumption == Response \subseteq Dict \cup {NotDict} /\ NotDict \notin Dict

VARIABLES content,    \* what each params object holds now
          changed,    \* the params objects that were changed in place
          sent,       \* what it held when the request was forwarded
          captured,   \* the request id handle has read
          response,   \* what upstream returned
          entry,      \* what append was given
          pc,
          log, outcome

vars == <<content, changed, sent, captured, response, entry, pc, log, outcome>>
logVars == <<log, outcome>>

Log == INSTANCE CrashLog

GoTo(h, step) == pc' = [pc EXCEPT ![h] = step]
Over == {"returned", "raised", "cancelled"}

-----------------------------------------------------------------------------
(* handle *)

RequestId(h) == IF IdOf[h] = Absent THEN Missing ELSE IdOf[h]

(* Faulty: kept on the proxy, not in the call. *)
Forward_OnSelf(h) ==
    /\ pc[h] = "idle"
    /\ captured' = [x \in Call |-> RequestId(h)]
    /\ sent' = [sent EXCEPT ![h] = content[ParamsOf[h]]]
    /\ GoTo(h, "waiting")
    /\ UNCHANGED <<content, changed, response, entry, logVars>>

(* Method and id are copied, params are kept as the object they are, and   *)
(* upstream is called.                                                     *)
Forward(h) ==
    /\ pc[h] = "idle"
    /\ captured' = [captured EXCEPT ![h] = RequestId(h)]
    /\ sent' = [sent EXCEPT ![h] = content[ParamsOf[h]]]
    /\ GoTo(h, "waiting")
    /\ UNCHANGED <<content, changed, response, entry, logVars>>

(* Upstream is done with the call, and handle will run again. *)
Answer(h, r) ==
    /\ pc[h] = "waiting"
    /\ response' = [response EXCEPT ![h] = r]
    /\ GoTo(h, "answered")
    /\ UNCHANGED <<content, changed, sent, captured, entry, logVars>>

(* Upstream raises, or the task of the call is cancelled at the await. *)
Abandon(h, way) ==
    /\ pc[h] \in {"waiting", "answered"}
    /\ way = "raised" => pc[h] = "waiting"
    /\ GoTo(h, way)
    /\ UNCHANGED <<content, changed, sent, captured, response, entry, logVars>>

(* Upstream, or whoever else holds the params, changes them in place. *)
Change(o, v) ==
    /\ content[o] # v
    /\ \E h \in Call : ParamsOf[h] = o /\ pc[h] \in {"waiting", "answered"}
    /\ content' = [content EXCEPT ![o] = v]
    /\ changed' = changed \cup {o}
    /\ UNCHANGED <<sent, captured, response, entry, pc, logVars>>

(* response.get("result", response.get("error")) *)
Payload(r) == IF r.result # Absent THEN r.result ELSE r.error
Status(r)  == IF r.result # Absent THEN "ok" ELSE "error"

EntryFor(h) == [id |-> captured[h], params |-> content[ParamsOf[h]],
                payload |-> Payload(response[h]), status |-> Status(response[h])]

(* handle comes to call append, and append does not refuse the call before *)
(* it takes the locks.                                                     *)
Attestable(h) ==
    /\ response[h] \in Dict
    /\ {EntryFor(h).params, EntryFor(h).payload} \cap NonCanonical = {}
    /\ SignerOf[h] \in Key

(* Faulty: attested together, once no call is waiting any more. *)
Attest_Batched(h) ==
    /\ pc[h] = "answered"
    /\ \A g \in Call : pc[g] # "waiting"
    /\ Attestable(h)
    /\ Log!Write(h)
    /\ entry' = [entry EXCEPT ![h] = EntryFor(h)]
    /\ GoTo(h, "appended")
    /\ UNCHANGED <<content, changed, sent, captured, response>>

(* append has written its line; it may have waited for the locks, so this  *)
(* is a step of its own.                                                   *)
Attest(h) ==
    /\ pc[h] = "answered"
    /\ Attestable(h)
    /\ Log!Write(h)
    /\ entry' = [entry EXCEPT ![h] = EntryFor(h)]
    /\ GoTo(h, "appended")
    /\ UNCHANGED <<content, changed, sent, captured, response>>

(* The response is no dict, params or payload have no canonical form, or   *)
(* the log has no key.                                                     *)
Refuse(h) ==
    /\ pc[h] = "answered"
    /\ ~ Attestable(h)
    /\ Log!Reject(h)
    /\ GoTo(h, "raised")
    /\ UNCHANGED <<content, changed, sent, captured, response, entry>>

(* append raises for what the disk does: before it has a record to write,  *)
(* or in the write, of which close() may still do the rest.                *)
DiskError(h) ==
    /\ pc[h] = "answered"
    /\ Attestable(h)
    /\ Log!Reject(h) \/ Log!Break(h)
    /\ entry' = [entry EXCEPT ![h] = EntryFor(h)]
    /\ GoTo(h, "raised")
    /\ UNCHANGED <<content, changed, sent, captured, response>>

(* append raises with its line in the log: fsync, the unlock or the close  *)
(* failed.                                                                 *)
SyncError(h) ==
    /\ pc[h] = "appended"
    /\ Log!Break(h)
    /\ GoTo(h, "raised")
    /\ UNCHANGED <<content, changed, sent, captured, response, entry>>

(* handle returns the response and the receipt. *)
Return(h) ==
    /\ pc[h] = "appended"
    /\ Log!Return(h)
    /\ GoTo(h, "returned")
    /\ UNCHANGED <<content, changed, sent, captured, response, entry>>

-----------------------------------------------------------------------------
Init ==
    /\ content \in [Params -> Value]
    /\ changed = {}
    /\ sent = [h \in Call |-> Absent]
    /\ captured = [h \in Call |-> Absent]
    /\ response = [h \in Call |-> Absent]
    /\ entry = [h \in Call |-> Absent]
    /\ pc = [h \in Call |-> "idle"]
    /\ Log!Init

Upstream == \/ \E h \in Call : \/ \E r \in Response : Answer(h, r)
                              \/ \E way \in {"raised", "cancelled"} : Abandon(h, way)
            \/ \E o \in Params, v \in Value : Change(o, v)

Proceed(h) == Attest(h) \/ Refuse(h) \/ Return(h)

Done == (\A h \in Call : pc[h] \in Over) /\ UNCHANGED vars

Next == \/ Upstream
        \/ \E h \in Call : Forward(h) \/ Proceed(h) \/ DiskError(h) \/ SyncError(h)
        \/ Done

(* The event loop runs a call that can go on; upstream need never answer. *)
Spec == Init /\ [][Next]_vars /\ \A h \in Call : WF_vars(Proceed(h))
-----------------------------------------------------------------------------
(* Properties *)

Records(h) == {i \in 1..Len(log) : log[i] \notin Junk /\ log[i].call = h}

DiskFailed == \E h \in Call : outcome[h] = "broken"

(* What append was given for h is the id of that very request, the member  *)
(* of that very response that the status names and, if nobody changed      *)
(* them, the params that were sent.                                        *)
OwnEntry(h) ==
    /\ entry[h].id = RequestId(h)
    /\ entry[h].payload = IF entry[h].status = "ok" THEN response[h].result
                                                 ELSE response[h].error
    /\ entry[h].status = "error" <=> response[h].result = Absent
    /\ entry[h].params = sent[h] \/ ParamsOf[h] \in changed

(* A call has one record at most, of its own request and answer, whatever  *)
(* other calls were forwarded, answered, cancelled or failed in between.   *)
(* A caller who gets a receipt has it, unless the disk failed a call and   *)
(* spoilt the line.  Of the others only one whom the disk failed in append *)
(* may have a record, without a receipt; one refused, cancelled or failed  *)
(* by upstream has none.                                                   *)
ReceiptsAttestAnswers ==
    \A h \in Call :
        /\ pc[h] = "returned" => OwnEntry(h) /\ (Records(h) # {} \/ DiskFailed)
        /\ Records(h) # {} =>
              /\ \E i \in 1..Len(log) : Records(h) = {i}
              /\ OwnEntry(h)
              /\ pc[h] \in {"appended", "returned"} \/ outcome[h] = "broken"

(* A call whose upstream is done comes to an end, though other upstreams   *)
(* never answer.                                                           *)
AnsweredCallsEnd == \A h \in Call : (pc[h] = "answered") ~> (pc[h] \in Over)

(* The log holds the params that were sent (proxy.py, handle; PROTOCOL.md  *)
(* 9.1 captures them before the request is forwarded).                     *)
RecordsWhatWasSent == \A h \in Call : Records(h) # {} => entry[h].params = sent[h]

(* A response with an error member is attested as an error. *)
ErrorsAttestedAsErrors ==
    \A h \in Call : Records(h) # {} /\ response[h].error # Absent => entry[h].status = "error"

(* A call that upstream answered, with a dict, and that has come to its    *)
(* end is in the log.                                                      *)
AnsweredCallsLogged ==
    \A h \in Call : pc[h] \in Over /\ response[h] \in Dict => Records(h) # {}
=============================================================================
