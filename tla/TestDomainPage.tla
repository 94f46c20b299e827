--------------------------- MODULE TestDomainPage ---------------------------
(* views/TestDomain.vue: how the cluster would answer a name right now.  A    *)
(* domain is a value, None the empty field; the optional client and profile   *)
(* are left out, their texts only travel.  The reasons are those of           *)
(* evaluateTestDomain (api/handlers/test_domain.go).                          *)
EXTENDS Page, Sequences

DomainField == Value \cup {None}
Reasons == {"local-dns", "allowlist", "blocklist", "safesearch", "forwarded"}
TestDomainResponse == [domain : Value, reason : Reasons]

TestDomainTypeOK ==
    /\ TypedCalls /\ ui.domain \in DomainField
    /\ ui.result \in TestDomainResponse \cup {None}
    /\ {ui.profiles, ui.loading, ui.error} \subseteq BOOLEAN

\* The steps the result is laid out in, each with the reason it stands for, and
\* the mark each of them gets.
TestDomainSteps == <<"local-dns", "allowlist", "blocklist", "safesearch", "forwarded">>
Chain == [k \in 1..Len(TestDomainSteps) |->
            IF ui.result.reason = TestDomainSteps[k] THEN "matched"
            ELSE IF TestDomainSteps[k] = "forwarded" THEN "n/a" ELSE "skipped"]

TestDomainTestOffered == ~ui.loading /\ ui.domain # None

TestDomainInit ==
    /\ page = "testdomain"
    /\ ui = [domain |-> None, profiles |-> FALSE, result |-> None, loading |-> FALSE,
             error |-> FALSE]
    /\ srv = None
    /\ calls = {Call(1, "listProfiles", None)} /\ writes = 0 /\ crossed = FALSE

TestDomainMounted(c) ==
    /\ c \in Ended("listProfiles")
    /\ ui' = [ui EXCEPT !.profiles = (c.at = "ok")]
    /\ Done(c) /\ UNCHANGED <<page, srv>>

TestDomainType(v) ==
    /\ v # ui.domain
    /\ ui' = [ui EXCEPT !.domain = v]
    /\ Local

\* mutant: the last verdict stays until the next one is there.
SubmitKeeping ==
    /\ TestDomainTestOffered
    /\ ui' = [ui EXCEPT !.error = FALSE, !.loading = TRUE]
    /\ Asks("testDomain", [domain |-> ui.domain])
    /\ UNCHANGED <<page, srv>>

Submit ==
    /\ TestDomainTestOffered
    /\ ui' = [ui EXCEPT !.error = FALSE, !.result = None, !.loading = TRUE]
    /\ Asks("testDomain", [domain |-> ui.domain])
    /\ UNCHANGED <<page, srv>>

Tested(c) ==
    /\ c \in Ended("testDomain")
    /\ ui' = [ui EXCEPT !.loading = FALSE,
                        !.error = (c.at = "failed"),
                        !.result = IF c.at = "ok" THEN c.data ELSE @]
    /\ Done(c) /\ UNCHANGED <<page, srv>>

\* The verdict is whatever the rules of the moment give; a name that is no
\* public one is refused.
TestDomainServes(c) ==
    /\ c.at = "sent"
    /\ \/ c.op = "listProfiles" /\ Answers(c, None) /\ UNCHANGED srv
       \/ /\ c.op = "testDomain"
          /\ \E r \in Reasons : Answers(c, [domain |-> c.arg.domain, reason |-> r])
          /\ UNCHANGED srv
       \/ c.op = "testDomain" /\ Refuses(c)
    /\ UNCHANGED <<page, ui>>

TestDomainNext ==
    \/ \E v \in DomainField : TestDomainType(v)
    \/ Submit
    \/ \E c \in calls : TestDomainMounted(c) \/ Tested(c) \/ TestDomainServes(c) \/ Fails(c)

-----------------------------------------------------------------------------

\* A verdict, an error or a test under way is shown, never two of them: nobody
\* reads an old verdict for the answer to the last test.
OneOutcome ==
    /\ ui.result # None => ~ui.error /\ Pending("testDomain") = {}
    /\ Cardinality(Pending("testDomain")) <= 1

\* Whatever reason the node gives, exactly the step of that reason is marked as
\* the one that decided.
OneStepDecides ==
    ui.result # None =>
        {k \in DOMAIN Chain : Chain[k] = "matched"}
            = {k \in DOMAIN TestDomainSteps : TestDomainSteps[k] = ui.result.reason}
        /\ \E k \in DOMAIN Chain : Chain[k] = "matched"

=============================================================================
