----------------------------- MODULE Certificates -----------------------------
(***************************************************************************)
(* The certificates of a stack in ACM (pkg/deploy/acm): requested before    *)
(* the listeners are deployed, validated by records in Route 53, replaced   *)
(* when the hosts of an Ingress change, deleted once the listener has let   *)
(* go of them.                                                              *)
(*                                                                          *)
(* A stack is a function from resource ids, which are numbers, to           *)
(* [type, hosts]; another type is another id.  The record that validates a  *)
(* host is the same for every certificate of that host, and every host has  *)
(* a public hosted zone.  The listener is deployed by one step between      *)
(* Synthesize and PostSynthesize.                                           *)
(***************************************************************************)
EXTENDS Integers, FiniteSets, Sequences, SequencesExt, Functions

CONSTANTS
    Stacks,        \* the stacks the model builder may ask for
    MaxEdits,      \* changes of the stack
    MaxFaults      \* calls that fail, answers that are lost, and restarts

VARIABLES
    wanted,        \* the stack asked for
    dirty,         \* a reconcile is due
    acm,           \* ARN -> certificate
    dns,           \* hosts with a validation record
    listener,      \* ARNs the listener uses
    run,           \* the deployment under way
    edits, faults, arns

vars == <<wanted, dirty, acm, dns, listener, run, edits, faults, arns>>

Idle == [stage |-> "idle", want |-> <<>>, todo |-> <<>>, matched |-> <<>>, doomed |-> <<>>, status |-> <<>>,
         res |-> 0, arn |-> 0, left |-> {}, then |-> ""]

Init ==
    /\ wanted \in Stacks /\ dirty = TRUE
    /\ acm = <<>> /\ dns = {} /\ listener = {}
    /\ run = Idle
    /\ edits = 0 /\ faults = 0 /\ arns = 0

-------------------------------------------------------------------------------
(* Synthesize: what there is against what is wanted                             *)

isSDKCertificateRequiresReplacement(cert, spec) == cert.hosts # spec.hosts

replaced(want) == {a \in DOMAIN acm : acm[a].res \in DOMAIN want /\ isSDKCertificateRequiresReplacement(acm[a], want[acm[a].res])}
orphaned(want) == {a \in DOMAIN acm : acm[a].res \notin DOMAIN want}

\* In the order of the ids; the certificates of one id come in any order.
matches(want) ==
    LET kept == DOMAIN acm \ (replaced(want) \cup orphaned(want))
    IN {s \in SetToSeqs(kept) : \A i, j \in DOMAIN s : i < j => acm[s[i]].res <= acm[s[j]].res}

\* A resource is requested once for every certificate that does not fit it, and
\* once if it has none.
requests(want) ==
    LET unfit == SetToSortSeq(replaced(want), LAMBDA a, b : acm[a].res < acm[b].res)
        missing == {r \in DOMAIN want : \A a \in DOMAIN acm : acm[a].res # r}
    IN [k \in DOMAIN unfit |-> acm[unfit[k]].res] \o SetToSortSeq(missing, <)

matchResAndSDKCertificates ==
    /\ run.stage = "idle" /\ dirty
    /\ dirty' = FALSE
    /\ \E m \in matches(wanted) :
         run' = [Idle EXCEPT !.stage = "next", !.want = wanted, !.todo = requests(wanted),
                             !.matched = [k \in DOMAIN m |-> [arn |-> m[k], issued |-> acm[m[k]].issued]],
                             !.doomed = SetToSeq(replaced(wanted) \cup orphaned(wanted))]
    /\ UNCHANGED <<wanted, acm, dns, listener, edits, faults, arns>>

-------------------------------------------------------------------------------
(* Calls of the certificate manager                                              *)

create ==
    /\ run.stage = "request"
    /\ LET spec == run.want[run.res]
       IN /\ acm' = ((arns + 1) :> [res |-> run.res, type |-> spec.type, hosts |-> spec.hosts, issued |-> FALSE, old |-> FALSE]) @@ acm
          /\ run' = [run EXCEPT !.stage = "validate", !.arn = arns + 1,
                                !.left = IF spec.type = "public" THEN spec.hosts ELSE {}]
    /\ arns' = arns + 1
    /\ UNCHANGED <<wanted, dirty, dns, listener, edits, faults>>

\* A record that is there already, for another certificate, will do.
CreateWithValidationRecords ==
    /\ run.stage = "validate"
    /\ IF run.left = {} THEN run' = [run EXCEPT !.stage = "wait"] /\ UNCHANGED dns
       ELSE \E h \in run.left : dns' = dns \cup {h} /\ run' = [run EXCEPT !.left = @ \ {h}]
    /\ UNCHANGED <<wanted, dirty, acm, listener, edits, faults, arns>>

SetStatus(r, a) == (r :> a) @@ run.status

WaitForCertificateIssued ==
    /\ run.stage = "wait" /\ acm[run.arn].issued
    /\ run' = [run EXCEPT !.stage = "next", !.status = SetStatus(run.res, run.arn)]
    /\ UNCHANGED <<wanted, dirty, acm, dns, listener, edits, faults, arns>>

\* Records that are gone already are ignored.
DeleteWithValidationRecords ==
    /\ run.stage = "delete" /\ run.left # {}
    /\ \E h \in run.left : dns' = dns \ {h} /\ run' = [run EXCEPT !.left = @ \ {h}]
    /\ UNCHANGED <<wanted, dirty, acm, listener, edits, faults, arns>>

Abort == run' = Idle /\ dirty' = TRUE

\* ACM refuses to delete a certificate in use.
delete ==
    /\ run.stage = "delete" /\ run.left = {}
    /\ IF run.arn \in listener THEN Abort /\ UNCHANGED acm
       ELSE acm' = Restrict(acm, DOMAIN acm \ {run.arn}) /\ run' = [run EXCEPT !.stage = run.then] /\ UNCHANGED dirty
    /\ UNCHANGED <<wanted, dns, listener, edits, faults, arns>>

-------------------------------------------------------------------------------
(* The loops of Synthesize and PostSynthesize                                    *)

Delete(a, then) == [run EXCEPT !.stage = "delete", !.arn = a, !.res = acm[a].res, !.then = then,
                               !.left = IF acm[a].type = "public" THEN acm[a].hosts ELSE {}]

\* What the list said of a certificate, and its age by now
pending(m) == ~m.issued
overdue(m) == acm[m.arn].old

SynthesizeMissing ==
    /\ run.stage = "next" /\ run.todo # <<>>
    /\ run' = [run EXCEPT !.stage = "request", !.res = Head(run.todo), !.todo = Tail(@)]
    /\ UNCHANGED <<wanted, dirty, acm, dns, listener, edits, faults, arns>>

\* Mutant: a pending certificate is waited for, however long it has been pending.
SynthesizeMatched_wait ==
    /\ run.stage = "next" /\ run.todo = <<>> /\ run.matched # <<>>
    /\ LET m == Head(run.matched)
           r == acm[m.arn].res
       IN run' = [IF pending(m) THEN [run EXCEPT !.stage = "wait", !.res = r, !.arn = m.arn]
                  ELSE [run EXCEPT !.status = SetStatus(r, m.arn)]
                  EXCEPT !.matched = Tail(run.matched)]
    /\ UNCHANGED <<wanted, dirty, acm, dns, listener, edits, faults, arns>>

\* A certificate that was pending is waited for, or made anew if it takes too long.
SynthesizeMatched ==
    /\ run.stage = "next" /\ run.todo = <<>> /\ run.matched # <<>>
    /\ LET m == Head(run.matched)
           r == acm[m.arn].res
       IN run' = [CASE pending(m) /\ overdue(m) -> Delete(m.arn, "request")
                    [] pending(m) -> [run EXCEPT !.stage = "wait", !.res = r, !.arn = m.arn]
                    [] OTHER -> [run EXCEPT !.status = SetStatus(r, m.arn)]
                  EXCEPT !.matched = Tail(run.matched)]
    /\ UNCHANGED <<wanted, dirty, acm, dns, listener, edits, faults, arns>>

\* The synthesizers in between give the listener the certificates of the stack.
DeployListener ==
    /\ run.stage = "next" /\ run.todo = <<>> /\ run.matched = <<>>
    /\ listener' = Range(run.status)
    /\ run' = [run EXCEPT !.stage = "post"]
    /\ UNCHANGED <<wanted, dirty, acm, dns, edits, faults, arns>>

PostSynthesize ==
    /\ run.stage = "post"
    /\ run' = IF run.doomed = <<>> THEN Idle ELSE [Delete(Head(run.doomed), "post") EXCEPT !.doomed = Tail(run.doomed)]
    /\ UNCHANGED <<wanted, dirty, acm, dns, listener, edits, faults, arns>>

-------------------------------------------------------------------------------
(* Everything around it                                                          *)

issuable(a) == acm[a].type = "private" \/ acm[a].hosts \subseteq dns

Issue(a) ==
    /\ ~acm[a].issued /\ issuable(a)
    /\ acm' = [acm EXCEPT ![a].issued = TRUE]
    /\ UNCHANGED <<wanted, dirty, dns, listener, run, edits, faults, arns>>

\* reissueWaitTime has passed
Age(a) ==
    /\ ~acm[a].issued /\ ~acm[a].old
    /\ acm' = [acm EXCEPT ![a].old = TRUE]
    /\ UNCHANGED <<wanted, dirty, dns, listener, run, edits, faults, arns>>

\* A certificate whose records are missing is waited for in vain.
WaitTimeout ==
    /\ run.stage = "wait" /\ ~acm[run.arn].issued /\ ~issuable(run.arn)
    /\ Abort
    /\ UNCHANGED <<wanted, acm, dns, listener, edits, faults, arns>>

\* A call fails, before or after it took effect, or the process ends.
Fail ==
    /\ run.stage # "idle" /\ faults < MaxFaults
    /\ Abort
    /\ faults' = faults + 1
    /\ UNCHANGED <<wanted, acm, dns, listener, edits, arns>>

Edit ==
    /\ edits < MaxEdits
    /\ wanted' \in Stacks \ {wanted}
    /\ dirty' = TRUE
    /\ edits' = edits + 1
    /\ UNCHANGED <<acm, dns, listener, run, faults, arns>>

Deploy ==
    \/ matchResAndSDKCertificates \/ SynthesizeMissing \/ SynthesizeMatched
    \/ create \/ CreateWithValidationRecords \/ WaitForCertificateIssued \/ WaitTimeout
    \/ DeployListener \/ PostSynthesize \/ DeleteWithValidationRecords \/ delete
Authority == \E a \in DOMAIN acm : Issue(a) \/ Age(a)

Next == Deploy \/ Authority \/ Fail \/ Edit
Spec == Init /\ [][Next]_vars

-------------------------------------------------------------------------------
(* Properties                                                                    *)

fits(a, r) == acm[a].res = r /\ acm[a].hosts = wanted[r].hosts

\* The listener has one issued certificate of every resource, and there is no
\* certificate that is wanted no more.
Deployed ==
    /\ run.stage = "idle" /\ ~dirty
    /\ \A a \in listener : a \in DOMAIN acm /\ acm[a].issued
    /\ \A r \in DOMAIN wanted : Cardinality({a \in listener : fits(a, r)}) = 1
    /\ Cardinality(listener) = Cardinality(DOMAIN wanted)
    /\ \A a \in DOMAIN acm : \E r \in DOMAIN wanted : fits(a, r)

\* A deployment that ends without an error and is not due again has done its work.
Converged == run.stage = "idle" /\ ~dirty => Deployed

\* The listener is given issued certificates for the hosts of the stack, and no
\* certificate it uses is asked to be deleted: one found pending cannot be in use.
ReferencesExist ==
    /\ \A a \in listener : a \in DOMAIN acm /\ acm[a].issued
    /\ run.stage = "delete" => run.arn \notin listener

\* Every host has its own certificate: no resource has two.
OneCertificate == run.stage = "idle" /\ ~dirty => \A a, b \in DOMAIN acm : acm[a].res = acm[b].res => a = b

\* The record that validates a host stays as long as a certificate of the host
\* is used: it is needed again for every renewal.
RecordsKept ==
    run.stage = "idle" /\ ~dirty => \A a \in listener : acm[a].type = "public" => acm[a].hosts \subseteq dns
===============================================================================
