------------------------------- MODULE GitHubCalls -------------------------------
(***************************************************************************)
(* The calls of GitHub's REST API (github/client.py): retries after rate   *)
(* limits, server errors and lost answers, and lists read page by page     *)
(* while GitHub's list grows.  GitHub and the network are external: a      *)
(* request is carried out or not, and its answer arrives or not.           *)
(***************************************************************************)
EXTENDS Integers, Sequences, FiniteSets, SequencesExt

CONSTANTS
  Operations,   \* the operations, of Idempotent \cup {"create_check_run", "exchange_oauth_code"}
  Repos,        \* repositories that can be granted to the installation
  PerPage,      \* PER_PAGE
  MaxPages,     \* MAX_PAGES
  MaxAttempts,  \* RetryPolicy.max_attempts
  MaxRateLimitWait, \* RetryPolicy.max_rate_limit_wait
  Waits,        \* what Retry-After and X-RateLimit-Reset may ask for
  Revokes,      \* whether repositories are revoked during a listing
  MaxCalls      \* bound: calls

VARIABLES
  granted,  \* GitHub: the repositories of the installation, in the order of its pages
  applied,  \* GitHub: how often the present call was carried out
  call,     \* the client's call
  steady,   \* what was granted all through the present call
  calls

vars == <<granted, applied, call, steady, calls>>

-----------------------------------------------------------------------------
\* GET, and what has no effect beyond its result or the same effect again
Reads == {"get_app", "get_installation", "get_repository", "get_pull_request", "get_branch", "list_directory",
          "get_file_text", "get_authenticated_user"}
Lists == {"list_app_installations", "list_installation_repositories", "get_branch_rules", "list_user_installations",
          "list_user_installation_repository_ids"}
Idempotent == Reads \cup Lists \cup {"create_installation_token", "update_check_run"}

\* The exchange of an authorization code is never sent again.
Exchange == "exchange_oauth_code"

None == -1
Statuses == {200, 403, 404, 429, 500}

\* An answer with what matters of its headers and its body
Answer == [status: Statuses, exhausted: BOOLEAN, retryAfter: Waits \cup {None}, reset: Waits \cup {None},
           saysRateLimit: BOOLEAN, malformed: BOOLEAN]
Plain(status) == [status |-> status, exhausted |-> FALSE, retryAfter |-> None, reset |-> None,
                  saysRateLimit |-> FALSE, malformed |-> FALSE]

\* Answers that are looked at differently
Answers ==
  {Plain(s) : s \in Statuses} \cup {[Plain(200) EXCEPT !.malformed = TRUE]}
    \cup [status: {403, 429}, exhausted: BOOLEAN, retryAfter: Waits \cup {None}, reset: Waits \cup {None},
          saysRateLimit: BOOLEAN, malformed: {FALSE}]

Idle == [step |-> "idle", operation |-> "none", attempt |-> 0, page |-> 0, got |-> <<>>]

TypeOK ==
  /\ granted \in Seq(Repos) /\ IsInjective(granted)
  /\ applied \in 0..MaxAttempts * MaxPages /\ calls \in 0..MaxCalls
  /\ call \in [step: {"idle", "sending", "sleeping", "returned", "raised"}, operation: Operations \cup {"none"},
               attempt: 0..MaxAttempts, page: 0..MaxPages, got: Seq(Repos)]
  /\ steady \subseteq Repos

-----------------------------------------------------------------------------
(* Decisions of the client.                                                *)

\* _rate_limit_wait: None, or the seconds to wait
RateLimited(a) ==
  a.status = 429 \/ (a.status = 403 /\ (a.exhausted \/ a.retryAfter # None \/ a.saysRateLimit))
RateLimitWait(a) ==
  IF ~RateLimited(a) THEN None
  ELSE IF a.retryAfter # None THEN a.retryAfter
  ELSE IF a.exhausted /\ a.reset # None THEN a.reset
  ELSE 60

\* Mutant: one attempt more than the policy allows.
OneMore(c) == c.attempt <= MaxAttempts

More(c) == c.attempt < MaxAttempts

\* Mutant: a request is sent again whatever it does.
MayRepeatAny(c) == More(c)

\* After a server error or without an answer, only an idempotent request is sent again.
MayRepeat(c) == c.operation \in Idempotent /\ More(c)

\* After a rate limit, whatever the request does: it was not carried out.
MayWait(c, a) == c.operation # Exchange /\ More(c) /\ RateLimitWait(a) <= MaxRateLimitWait

\* The pages of a list, and whether GitHub links to a next one
PageOf(n) == SubSeq(granted, (n - 1) * PerPage + 1, IF n * PerPage < Len(granted) THEN n * PerPage ELSE Len(granted))
HasNext(n) == n * PerPage < Len(granted)

-----------------------------------------------------------------------------
(* A call.                                                                 *)

Again(c) == [c EXCEPT !.step = "sleeping"]
Raised(c) == [c EXCEPT !.step = "raised"]

Start(operation) ==
  /\ call.step = "idle" /\ calls < MaxCalls /\ calls' = calls + 1
  /\ call' = [Idle EXCEPT !.step = "sending", !.operation = operation, !.attempt = 1, !.page = 1]
  /\ applied' = 0 /\ steady' = ToSet(granted)
  /\ UNCHANGED granted

\* _paginate: more pages than the limit are an error, never a shorter list.
NextPage(c, got) ==
  IF ~HasNext(c.page) THEN [c EXCEPT !.step = "returned", !.got = got]
  ELSE IF c.page = MaxPages THEN Raised(c)
  ELSE [c EXCEPT !.page = @ + 1, !.attempt = 1, !.got = got]

\* An answer with a status of success
Success(c, a) ==
  IF a.malformed THEN Raised(c)
  ELSE IF c.operation \in Lists THEN NextPage(c, c.got \o PageOf(c.page))
  ELSE [c EXCEPT !.step = "returned"]

\* GitHub carries out a request and answers, and the client looks at the answer.
Answered(a) ==
  /\ call.step = "sending"
  /\ applied' = IF a.status = 200 THEN applied + 1 ELSE applied
  /\ call' = IF a.status = 200 THEN Success(call, a)
             ELSE IF RateLimited(a) THEN IF MayWait(call, a) THEN Again(call) ELSE Raised(call)
             ELSE IF a.status = 500 /\ MayRepeat(call) THEN Again(call)
             ELSE Raised(call)
  /\ UNCHANGED <<granted, steady, calls>>

\* No answer arrives, or a server error, of a request that was carried out.
Lost(carriedOut) ==
  /\ call.step = "sending"
  /\ applied' = IF carriedOut THEN applied + 1 ELSE applied
  /\ call' = IF MayRepeat(call) THEN Again(call) ELSE Raised(call)
  /\ UNCHANGED <<granted, steady, calls>>

Resend ==
  /\ call.step = "sleeping"
  /\ call' = [call EXCEPT !.step = "sending", !.attempt = @ + 1]
  /\ UNCHANGED <<granted, applied, steady, calls>>

\* The caller uses the result, or handles the error.
Finish ==
  /\ call.step \in {"returned", "raised"} /\ call' = Idle
  /\ UNCHANGED <<granted, applied, steady, calls>>

Grant(r) ==
  /\ r \notin ToSet(granted) /\ granted' = Append(granted, r)
  /\ UNCHANGED <<applied, call, steady, calls>>

Revoke(r) ==
  /\ Revokes \/ call.step = "idle"
  /\ \E i \in DOMAIN granted : granted[i] = r /\ granted' = RemoveAt(granted, i)
  /\ steady' = steady \ {r}
  /\ UNCHANGED <<applied, call, calls>>

Init == granted = <<>> /\ applied = 0 /\ call = Idle /\ steady = {} /\ calls = 0

Next ==
  \/ \E operation \in Operations : Start(operation)
  \/ \E a \in Answers : Answered(a)
  \/ \E carriedOut \in BOOLEAN : Lost(carriedOut)
  \/ Resend \/ Finish
  \/ \E r \in Repos : Grant(r) \/ Revoke(r)

Spec == Init /\ [][Next]_vars

-----------------------------------------------------------------------------
(* What must not happen twice happens at most once in a call, although     *)
(* answers get lost and rate limits are waited for; a call that returns    *)
(* was carried out.                                                        *)
CarriedOutOnce ==
  /\ call.step # "idle" /\ call.operation \notin Idempotent => applied <= 1
  /\ call.step = "returned" /\ call.operation \notin Lists => applied >= 1

(* A list that is returned has every repository that was granted all the   *)
(* time: an error on a later page, or too many pages, never shorten it,    *)
(* and what is granted meanwhile does not displace anything.               *)
ListsAreWhole ==
  call.step = "returned" /\ call.operation \in Lists => steady \subseteq ToSet(call.got)
=============================================================================
