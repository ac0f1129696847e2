------------------------------ MODULE VendorFetch ------------------------------
(***************************************************************************)
(* One fetch_* call of a vendor adapter: requests one after another, each  *)
(* with bounded retries, each answered by pages of rows; the first request *)
(* that cannot be completed and the first row that cannot be mapped end    *)
(* the call with an error and no rows.                                     *)
(*                                                                         *)
(*  ssi        token before every request, refreshed on 401; pages         *)
(*  http_json  (and the Yahoo chart) one request per symbol, one page      *)
(*  rss        one request, one page; only transport errors are retried    *)
(*  finfo      (CafeF, VNDirect) one request each, for its first PageSize  *)
(*             rows only, no retry                                         *)
(*  imf        one request each, one page, no retry                        *)
(*                                                                         *)
(* What the vendor lists does not change while the call lasts.             *)
(***************************************************************************)
EXTENDS Integers, Sequences, FiniteSets, SequencesExt

CONSTANTS
  Tickers,     \* symbols or index codes of the call
  Listings,    \* what the vendor may have in the window: sets of <<ticker, day>>
  WindowEnd,   \* the window asked for is 1 .. WindowEnd
  ChunkDays,   \* days of one request for index bars (30 in the code)
  PageSize,    \* rows of one page
  MaxRetries,
  MaxRevokes   \* bound: tokens the vendor revokes during the call

ASSUME FetchAssumption ==
  /\ IsFiniteSet(Tickers) /\ WindowEnd \in Nat \ {0} /\ ChunkDays \in Nat
  /\ PageSize \in Nat \ {0} /\ MaxRetries \in Nat /\ MaxRevokes \in Nat
  /\ \A l \in Listings : l \subseteq Tickers \X (1 .. WindowEnd)

VARIABLES
  vendor,    \* the adapter, and for ssi whether bars or index bars are asked for
  credentials, \* are consumer id and secret configured (ssi)
  listed,    \* what the vendor has: <<ticker, day>>
  call,      \* idle, running, ok or error
  todo,      \* requests left: ticker and first and last day
  page, attempt,
  sending,   \* a token was obtained (where one is needed): the request is under way
  got,       \* rows so far
  cached, fresh,  \* cached token, and whether it is younger than its expiry less 60 s
  using,     \* token of the request under way
  accepted,  \* token the vendor accepts
  revokes

progress == <<call, todo, page, attempt, sending, got>>
token == <<cached, fresh, using, accepted>>
origin == <<vendor, credentials, listed>>
fetchVars == <<origin, progress, token, revokes>>

Ssi == {"ssi_eod", "ssi_index"}
Vendors == Ssi \cup {"http_json", "rss", "finfo", "imf"}

NoToken == 0

Min2(x, y) == IF x < y THEN x ELSE y

\* Windows of ChunkDays days after their first, from the day after the one before.
SubWindows(first, last) ==
  {<<s, Min2(s + ChunkDays, last)>> :
     s \in {d \in first .. last : (d - first) % (ChunkDays + 1) = 0}}

Windows == IF vendor = "ssi_index" THEN SubWindows(1, WindowEnd) ELSE {<<1, WindowEnd>>}

\* One request per ticker and window; a feed is asked for everything at once.
Asks ==
  IF vendor = "rss" THEN {[who |-> Tickers, from |-> 1, to |-> WindowEnd]}
  ELSE {[who |-> {t}, from |-> w[1], to |-> w[2]] : t \in Tickers, w \in Windows}

Requests == SetToSeq(Asks)

FetchInit ==
  /\ vendor \in Vendors /\ credentials \in (IF vendor \in Ssi THEN BOOLEAN ELSE {FALSE})
  /\ listed \in Listings
  /\ call = "idle" /\ todo = <<>> /\ page = 1 /\ attempt = 0 /\ sending = FALSE /\ got = <<>>
  /\ cached \in {NoToken, 1} /\ fresh = (cached = 1) /\ using = NoToken
  /\ accepted = 1 /\ revokes = 0

Fetch ==
  /\ call = "idle"
  /\ call' = "running" /\ todo' = Requests
  /\ UNCHANGED <<origin, page, attempt, sending, got, token, revokes>>

Raise == call' = "error" /\ got' = <<>> /\ UNCHANGED <<todo, page, attempt, sending>>

\* The vendor issues a token; the one before it is no longer accepted.
NewToken ==
  /\ accepted' = accepted + 1
  /\ cached' = accepted + 1 /\ fresh' = TRUE /\ using' = accepted + 1

UseCached == using' = cached /\ UNCHANGED <<cached, fresh, accepted>>

Send == sending' = TRUE /\ UNCHANGED <<call, todo, page, attempt, got>>

\* get_access_token() before the loop: the token is cached and young, or there are no
\* credentials to ask for another, or one is asked for.  A failure here is not retried.
GetAccessToken ==
  /\ call = "running" /\ ~sending /\ todo # <<>>
  /\ IF vendor \notin Ssi THEN Send /\ UNCHANGED token
     ELSE IF cached # NoToken /\ (fresh \/ ~credentials) THEN Send /\ UseCached
     ELSE \/ credentials /\ Send /\ NewToken
          \/ Raise /\ UNCHANGED token
  /\ UNCHANGED <<origin, revokes>>

\* Mutant: a refreshed token gets all attempts again.
AttemptsAnew == 0

NextAttempt == attempt + 1

Tries == IF vendor \in {"finfo", "imf"} THEN 1 ELSE MaxRetries + 1

MayRetry == attempt + 1 < Tries

Retry == attempt' = attempt + 1 /\ UNCHANGED <<call, todo, page, sending, got>>

\* A transport error, an error status or an unreadable body; the body of a feed is read
\* after the loop.
RequestFails ==
  /\ call = "running" /\ sending
  /\ IF MayRetry THEN Retry \/ (vendor = "rss" /\ Raise) ELSE Raise
  /\ UNCHANGED <<origin, token, revokes>>

\* 401: the token is refreshed and the request repeated.  An error answer to the refresh
\* is one more failed attempt; a refusal ends the call.
Unauthorized ==
  /\ call = "running" /\ sending /\ vendor \in Ssi /\ using # accepted
  /\ \/ /\ MayRetry /\ attempt' = NextAttempt
        /\ UNCHANGED <<call, todo, page, sending, got>>
        /\ IF credentials THEN NewToken \/ UNCHANGED token ELSE UseCached
     \/ /\ ~MayRetry \/ credentials
        /\ Raise /\ UNCHANGED token
  /\ UNCHANGED <<origin, revokes>>

Request == Head(todo)

\* The rows the vendor has for a request, in an order that it keeps, and one page of them.
RowsFor(q) == {r \in listed : r[1] \in q.who /\ r[2] \in q.from .. q.to}
Matching == SetToSeq(RowsFor(Request))

Paged == vendor \in Ssi

\* Asked for with a page size, whether or not the next page is asked for.
Sized == Paged \/ vendor = "finfo"

PageOf(rows) ==
  IF ~Sized THEN rows
  ELSE SubSeq(rows, (page - 1) * PageSize + 1, Min2(page * PageSize, Len(rows)))

\* Mutant: a page that is nearly full is taken for the last.
NearlyShort(rows, total) == Len(rows) <= PageSize

\* An empty page, the vendor's total reached (it may not say it), or a short page.
LastPage(rows, total) ==
  \/ ~Paged \/ rows = <<>>
  \/ total # -1 /\ page * PageSize >= total
  \/ Len(rows) < PageSize

Answer ==
  /\ call = "running" /\ sending /\ (vendor \in Ssi => using = accepted)
  /\ LET rows == PageOf(Matching)
     IN /\ got' = got \o rows
        /\ \E total \in {-1, Len(Matching)} :
             IF LastPage(rows, total) THEN todo' = Tail(todo) /\ page' = 1
                                      ELSE todo' = todo /\ page' = page + 1
  /\ attempt' = 0 /\ sending' = FALSE
  /\ UNCHANGED <<origin, call, token, revokes>>

\* A row that cannot be mapped fails the whole call, the symbols before it included.
Unmappable ==
  /\ call = "running" /\ sending /\ (vendor \in Ssi => using = accepted)
  /\ vendor # "rss" /\ PageOf(Matching) # <<>>
  /\ Raise
  /\ UNCHANGED <<origin, token, revokes>>

\* The rows are handed to the pipeline; bars of several sub-windows are sorted and a bar
\* that two of them had is taken once.
Return ==
  /\ call = "running" /\ todo = <<>>
  /\ call' = "ok"
  /\ got' = IF Cardinality(Windows) > 1 THEN SetToSeq(ToSet(got)) ELSE got
  /\ UNCHANGED <<origin, todo, page, attempt, sending, token, revokes>>

\* The environment: six hours pass, or the vendor forgets a token.
Age == fresh /\ fresh' = FALSE
       /\ UNCHANGED <<origin, progress, cached, using, accepted, revokes>>

Revoke ==
  /\ revokes < MaxRevokes /\ revokes' = revokes + 1
  /\ accepted' = accepted + 1
  /\ UNCHANGED <<origin, progress, cached, fresh, using>>

FetchSteps == GetAccessToken \/ RequestFails \/ Unauthorized \/ Answer \/ Unmappable \/ Return

FetchNext == (call = "running" /\ (FetchSteps \/ Age \/ Revoke)) \/ Fetch

FetchSpec == FetchInit /\ [][FetchNext]_fetchVars /\ WF_fetchVars(FetchSteps)

-----------------------------------------------------------------------------
(* Properties *)

\* A call that returns has every row the vendor lists for the window, each once: no page,
\* ticker or sub-window is skipped or read twice, whatever was retried on the way.  Only of
\* a ticker CafeF and VNDirect have more than one page of are rows missing, without an
\* error: there the first page, all of it, is what is returned.
CompleteOrError ==
  call = "ok" =>
    /\ ToSet(got) \subseteq listed /\ Len(got) = Cardinality(ToSet(got))
    /\ \A r \in listed \ ToSet(got) :
         vendor = "finfo" /\ Cardinality({s \in ToSet(got) : s[1] = r[1]}) = PageSize

\* Does not hold of CafeF and VNDirect, whose second page is never asked for.
EveryRowIsFetched == call = "ok" => ToSet(got) = listed

\* A call ends: retries, token refreshes and pages are bounded.
FetchEnds == call = "running" ~> call \in {"ok", "error"}

=============================================================================
