------------------------------ MODULE WebPages ------------------------------
(***************************************************************************)
(* One tab of the web frontend: its routes and their guards (app.tsx), the  *)
(* session (login.tsx, top_bar.tsx, change_password.tsx), the gallery       *)
(* (user_home.tsx), a new document (new_document.tsx), the title and the    *)
(* share links of a document (document.tsx, share.tsx).  What they show is  *)
(* SWR's cache of answers of the backend (api.ts, api/).                    *)
(*                                                                         *)
(* SWR, as the code uses it: of several fetches of a key only the last one's *)
(* answer counts; mutate() starts a new one if a page uses the key;         *)
(* mutate(data) makes fetches begun before void; a component that appears   *)
(* joins a fetch that is under way; a fetch that fails is retried.  An error *)
(* counts whichever fetch it is of: it ends the loading, which the pages ask *)
(* for with "me" only, so that superseded fetches are followed for that key. *)
(* That a fetch is also shared for two seconds after it ended is left out.   *)
(***************************************************************************)
EXTENDS Integers, Sequences, FiniteSets

CONSTANTS
    NewTitles,      \* titles a user enters
    Gallery,        \* the documents of the user at first
    ShareLinks,     \* share links there may be
    FirstTitle,     \* of the document
    MaxAsked        \* bound: requests the user makes

ASSUME WebPagesAssumption ==
    MaxAsked \in Nat /\ "new" \notin Gallery

VARIABLES
    server,     \* the backend: the title, links, documents, and open sessions
    swr,        \* per key: the data shown, the state of its last fetch, its answer
    older,      \* fetches of "me" that mutate() superseded; has one of them failed?
    asked,      \* requests of the tab that are under way
    page,       \* where the tab is
    auth,       \* localStorage "auth": a session, or 0
    form,       \* state of the components of the page
    hasShareToken,  \* is there a share token in the address?
    topic,      \* bound: the key all requests of a behaviour concern
    used,       \* history: requests so far
    unheard     \* history: keys the tab has changed without hearing of it

webVars == <<server, swr, asked, page, auth, form, hasShareToken, topic, used, unheard, older>>

Keys == {"me", "document", "shareTokens", "documents"}
Pages == {"login", "home", "new", "document", "away"}
Private == {"home", "new", "document"}
NoData == <<>>         \* no answer yet; an answer is a sequence of one
Nothing == "nothing"
Operations == {"login", "logout", "changePassword", "rename", "share", "unshare",
               "delete", "create"}

NoForm == [editing |-> FALSE, modal |-> FALSE, loading |-> FALSE]

\* The keys the components of a page use.
Mounted(p, f) ==
    {"me"} \cup CASE p = "home" -> {"documents"}
                  [] p = "document" -> {"document"} \cup (IF f.modal THEN {"shareTokens"} ELSE {})
                  [] OTHER -> {}

WebTypeOK ==
    /\ server.title \in NewTitles \cup {FirstTitle}
    /\ server.links \subseteq ShareLinks /\ server.documents \subseteq Gallery \cup {"new"}
    /\ server.sessions \subseteq 1 .. MaxAsked + 1
    /\ \A k \in Keys : swr[k].fetch \in {"idle", "asked", "read", "failed"}
    /\ \A r \in asked : r.op \in Operations /\ r.phase \in {"sent", "done", "failed"}
    /\ page \in Pages /\ auth \in 0 .. MaxAsked + 1
    /\ DOMAIN form = DOMAIN NoForm
    /\ hasShareToken \in BOOLEAN /\ topic \in Keys /\ used \in 0 .. MaxAsked /\ unheard \subseteq Keys
    /\ older.underWay \in Nat /\ older.failed \in BOOLEAN

NoOlder == [underWay |-> 0, failed |-> FALSE]

Fresh(p) ==
    [k \in Keys |-> [data |-> NoData, answer |-> NoData,
                     fetch |-> IF k \in Mounted(p, NoForm) THEN "asked" ELSE "idle"]]

WebInit ==
    /\ server = [title |-> FirstTitle, links |-> {}, documents |-> Gallery, sessions |-> {1}]
    /\ page \in Private \cup {"login"}
    /\ auth \in {0, 1}
    /\ hasShareToken \in {FALSE, page = "document"}
    /\ topic \in Keys
    /\ swr = Fresh(page)
    /\ asked = {} /\ form = NoForm /\ used = 0 /\ unheard = {} /\ older = NoOlder

----------------------------------------------------------------------------
(* SWR.                                                                    *)

\* mutate() without data, of keys that are in use.
Mutated(cache, keys) ==
    [k \in Keys |-> IF k \in keys THEN [cache[k] EXCEPT !.fetch = "asked", !.answer = NoData]
                    ELSE cache[k]]

\* mutate(data, { revalidate: false }).
Overwritten(cache, k, value) ==
    [cache EXCEPT ![k] = [data |-> <<value>>, answer |-> NoData, fetch |-> "idle"]]

\* Other components appear: their keys are fetched, unless they are already.  What
\* the cache still holds for keys no longer used is left out.
Appeared(cache, p, f) ==
    LET new == Mounted(p, f) \ Mounted(page, form)
        kept == [k \in Keys |-> IF k \in Mounted(p, f) THEN cache[k]
                                ELSE [cache[k] EXCEPT !.data = NoData]]
    IN  Mutated(kept, {k \in new : cache[k].fetch = "idle"})

UnderWay == swr["me"].fetch \in {"asked", "read"}

IsLoggedIn == swr["me"].data # NoData
IsLoading == UnderWay /\ ~IsLoggedIn /\ ~older.failed

\* What the backend says to a request with the headers of authMiddleware.
Access == IF auth \in server.sessions THEN "full" ELSE IF hasShareToken THEN "shared" ELSE "none"

Answer(k) ==
    IF Access = "none" \/ (Access = "shared" /\ k # "document") THEN NoData
    ELSE CASE k = "me" -> <<"user">>
           [] k = "document" -> <<[name |-> server.title, access |-> Access]>>
           [] k = "shareTokens" -> <<server.links>>
           [] k = "documents" -> <<server.documents>>

\* The answer arrives; a refusal is asked again, except that without a token the
\* backend answers 422 to "me".
Received(k, answer) ==
    [data |-> IF answer # NoData /\ k \in Mounted(page, form) THEN answer ELSE swr[k].data,
     fetch |-> IF answer # NoData \/ k \notin Mounted(page, form) \/ (k = "me" /\ auth = 0)
               THEN "idle" ELSE IF k = "me" THEN "failed" ELSE "asked",
     answer |-> NoData]

\* The answer to what no request of the tab concerns need not be under way.
Read(k) ==
    /\ swr[k].fetch = "asked"
    /\ swr' = [swr EXCEPT ![k] = IF k \in {topic, "me"}
                                 THEN [@ EXCEPT !.fetch = "read", !.answer = Answer(k)]
                                 ELSE Received(k, Answer(k))]
    /\ unheard' = unheard \ {k}
    /\ UNCHANGED <<server, asked, page, auth, form, hasShareToken, topic, used, older>>

Deliver(k) ==
    /\ swr[k].fetch = "read"
    /\ swr' = [swr EXCEPT ![k] = Received(k, swr[k].answer)]
    /\ UNCHANGED <<server, asked, page, auth, form, hasShareToken, topic, used, unheard, older>>

\* Other keys are asked for until there is an answer; that of "me" matters, as it
\* is not being loaded until the retry.
FetchFails ==
    /\ swr["me"].fetch = "asked" /\ ~IsLoggedIn
    /\ swr' = [swr EXCEPT !["me"].fetch = "failed"]
    /\ UNCHANGED <<server, asked, page, auth, form, hasShareToken, topic, used, unheard, older>>

\* A superseded fetch of "me" ends.  Its answer is dropped, but after an error
\* nothing is loading any more, although a newer fetch is under way.
OlderEnds ==
    /\ older.underWay > 0
    /\ \E failed \in BOOLEAN :
          older' = [underWay |-> older.underWay - 1, failed |-> older.failed \/ (failed /\ UnderWay)]
    /\ UNCHANGED <<server, swr, asked, page, auth, form, hasShareToken, topic, used, unheard>>

\* The retry of a failed fetch, the refresh interval, the focus (of "me" on the
\* login page), or the network is back.
Refetch(k) ==
    /\ k \in Mounted(page, form)
    /\ swr[k].fetch = "failed" \/ (swr[k].fetch = "idle" /\ k = topic)
    /\ swr' = Mutated(swr, {k})
    /\ older' = IF k = "me" THEN [older EXCEPT !.failed = FALSE] ELSE older
    /\ UNCHANGED <<server, asked, page, auth, form, hasShareToken, topic, used, unheard>>

----------------------------------------------------------------------------
(* Pages.                                                                  *)

\* wouter's navigate.
Goto(p, cache) ==
    /\ page' = p /\ form' = NoForm
    /\ swr' = Appeared(cache, p, NoForm)

\* AuthenticatedRoute, LoggedInRoute and LoggedInRedirectRoute, of which the
\* last may send the user elsewhere (logged_out_redirect_url).
Redirect ==
    /\ page \in Private /\ ~IsLoggedIn /\ ~IsLoading
    /\ page = "document" => ~hasShareToken
    /\ \E p \in {"login"} \cup (IF page = "home" THEN {"away"} ELSE {}) :
          \* useGetMe of LoginPage joins a fetch that is under way.
          Goto(p, IF UnderWay THEN swr ELSE Mutated(swr, {"me"}))
    /\ UNCHANGED <<server, asked, auth, hasShareToken, topic, used, unheard, older>>

Shown == page \in Private => IsLoggedIn \/ (page = "document" /\ hasShareToken)

\* Links of the gallery and the way back from a document or the form.
FollowLink ==
    /\ Shown
    /\ \E p \in Private :
          /\ \/ page = "home" /\ p # "home"
             \/ page = "document" /\ p = "home" /\ IsLoggedIn
             \/ page = "new" /\ p = "home"
          /\ Goto(p, swr)
    /\ UNCHANGED <<server, asked, auth, hasShareToken, topic, used, unheard, older>>

\* A page is loaded anew, and requests are given up.
Reloaded(p) ==
    /\ page' = p /\ form' = NoForm /\ swr' = Fresh(p)
    /\ asked' = {} /\ unheard' = {} /\ older' = NoOlder

\* While nothing is under way; otherwise the request fails.
SessionExpires ==
    /\ server.sessions # {} /\ asked = {}
    /\ server' = [server EXCEPT !.sessions = {}]
    /\ UNCHANGED <<swr, asked, page, auth, form, hasShareToken, topic, used, unheard, older>>

----------------------------------------------------------------------------
(* What the user asks for.                                                 *)

KeyOf(op) ==
    CASE op = "rename" -> "document"
      [] op \in {"share", "unshare"} -> "shareTokens"
      [] op \in {"delete", "create"} -> "documents"
      [] OTHER -> "me"

Send(op, arg, old) ==
    /\ used < MaxAsked /\ topic = KeyOf(op)
    /\ used' = used + 1
    /\ asked' = asked \cup {[op |-> op, arg |-> arg, old |-> old, session |-> auth,
                             id |-> used, phase |-> "sent", applied |-> FALSE]}
    /\ UNCHANGED <<server, page, auth, hasShareToken, topic, unheard, older>>

Login ==
    /\ page = "login"
    /\ Send("login", Nothing, NoData)
    /\ UNCHANGED <<swr, form>>

\* MeMenu, on pages with a MeButton.
UserMenu ==
    /\ Shown /\ page \in {"home", "document"} /\ IsLoggedIn
    /\ \E op \in {"logout", "changePassword"} : Send(op, Nothing, NoData)
    /\ UNCHANGED <<swr, form>>

HasFullAccess ==
    swr["document"].data # NoData /\ Head(swr["document"].data).access = "full"

OnDocument == page = "document" /\ Shown /\ HasFullAccess

EditTitle ==
    /\ OnDocument
    /\ form' = [form EXCEPT !.editing = ~@]
    /\ UNCHANGED <<server, swr, asked, page, auth, hasShareToken, topic, used, unheard, older>>

\* onChange of DocumentTitle: the new title is shown at once.
SubmitTitle(title) ==
    LET data == swr["document"].data
    IN  /\ OnDocument /\ form.editing
        /\ Send("rename", title, data)
        /\ swr' = Overwritten(swr, "document", [Head(data) EXCEPT !.name = title])
        /\ form' = [form EXCEPT !.editing = FALSE]

ToggleShareModal ==
    /\ OnDocument \/ (page = "document" /\ form.modal)
    /\ LET toggled == [form EXCEPT !.modal = ~@, !.loading = FALSE]
       IN  /\ form' = toggled
           /\ swr' = Appeared(swr, page, toggled)
    /\ UNCHANGED <<server, asked, page, auth, hasShareToken, topic, used, unheard, older>>

\* The submit button is disabled while a request is under way.  An expiry date
\* that cannot be formatted throws, which is swallowed.
SubmitShare ==
    /\ page = "document" /\ form.modal /\ ~form.loading
    /\ \E link \in ShareLinks \ server.links :
          /\ \A r \in asked : r.arg # link
          /\ Send("share", link, NoData)
    /\ form' = [form EXCEPT !.loading = TRUE]
    /\ UNCHANGED swr

DeleteLink(link) ==
    /\ page = "document" /\ form.modal
    /\ swr["shareTokens"].data # NoData /\ link \in Head(swr["shareTokens"].data)
    /\ Send("unshare", link, NoData)
    /\ UNCHANGED <<swr, form>>

DeleteDocument(doc) ==
    /\ page = "home" /\ Shown
    /\ swr["documents"].data # NoData /\ doc \in Head(swr["documents"].data)
    /\ Send("delete", doc, NoData)
    /\ UNCHANGED <<swr, form>>

\* With a name and a file; an archive without document or media is refused on
\* the spot.
SubmitNew ==
    /\ page = "new" /\ Shown /\ ~form.loading
    /\ Send("create", "new", NoData)
    /\ form' = [form EXCEPT !.loading = TRUE]
    /\ UNCHANGED swr

----------------------------------------------------------------------------
(* The backend, and answers that are lost.                                 *)

Applied(r) ==
    CASE r.op = "login" -> [server EXCEPT !.sessions = @ \cup {r.id + 2}]
      [] r.op = "logout" -> [server EXCEPT !.sessions = @ \ {r.session}]
      [] r.op = "changePassword" -> [server EXCEPT !.sessions = {}]
      [] r.op = "rename" -> [server EXCEPT !.title = r.arg]
      [] r.op = "share" -> [server EXCEPT !.links = @ \cup {r.arg}]
      [] r.op = "unshare" -> [server EXCEPT !.links = @ \ {r.arg}]
      [] r.op = "delete" -> [server EXCEPT !.documents = @ \ {r.arg}]
      [] r.op = "create" -> [server EXCEPT !.documents = @ \cup {r.arg}]

Serve(r) ==
    /\ r \in asked /\ r.phase = "sent"
    /\ r.op = "login" \/ r.session \in server.sessions
    /\ server' = Applied(r)
    /\ asked' = (asked \ {r}) \cup {[r EXCEPT !.phase = "done", !.applied = TRUE]}
    /\ UNCHANGED <<swr, page, auth, form, hasShareToken, topic, used, unheard, older>>

\* Refused, or the connection breaks on the way there or back.
RequestFails(r) ==
    /\ r \in asked /\ r.phase # "failed"
    /\ asked' = (asked \ {r}) \cup {[r EXCEPT !.phase = "failed"]}
    /\ UNCHANGED <<server, swr, page, auth, form, hasShareToken, topic, used, unheard, older>>

----------------------------------------------------------------------------
(* The answers.                                                            *)

Taken(r, op) == r \in asked /\ r.op = op /\ r.phase # "sent"

Settle(r) == asked' = asked \ {r} /\ UNCHANGED <<server, hasShareToken, topic, used>>

InUse(k) == {k} \cap Mounted(page, form)

\* mutate() fetches nothing if the component that uses the key is gone; if it
\* comes back it may join a fetch begun before.
HeardOf(r, mutated) ==
    LET k == KeyOf(r.op)
        inUse == k \in Mounted(page, form)
    IN  unheard' = IF r.applied /\ IF inUse THEN ~mutated ELSE swr[k].fetch = "read"
                   THEN unheard \cup {k} ELSE unheard

\* Mutant: navigate without mutate().
Mutant_LoginAnswered(r) ==
    /\ Taken(r, "login") /\ Settle(r)
    /\ IF r.phase = "done"
       THEN /\ auth' = r.id + 2
            /\ Goto("home", swr)
       ELSE UNCHANGED <<auth, page, form, swr>>
    /\ UNCHANGED <<unheard, older>>

\* storeAuthToken, mutate, navigate('/').
LoginAnswered(r) ==
    /\ Taken(r, "login") /\ Settle(r)
    /\ IF r.phase = "done"
       THEN /\ auth' = r.id + 2
            /\ Goto("home", Mutated(swr, {"me"}))
            /\ older' = [underWay |-> older.underWay + (IF UnderWay THEN 1 ELSE 0), failed |-> FALSE]
       ELSE UNCHANGED <<auth, page, form, swr, older>>
    /\ UNCHANGED unheard

\* Whether or not the backend knows: the token is dropped, and the page loaded.
LogoutAnswered(r) ==
    /\ Taken(r, "logout")
    /\ auth' = 0
    /\ Reloaded("home")
    /\ UNCHANGED <<server, hasShareToken, topic, used>>

ChangePasswordAnswered(r) ==
    /\ Taken(r, "changePassword")
    /\ IF r.phase = "done"
       THEN Reloaded(page)
       ELSE asked' = asked \ {r} /\ UNCHANGED <<page, form, swr, unheard, older>>
    /\ UNCHANGED <<server, auth, hasShareToken, topic, used>>

\* Mutant: nothing after a success, as the new title is already shown.
Mutant_RenameAnswered(r) ==
    /\ Taken(r, "rename") /\ Settle(r)
    /\ swr' = IF r.phase = "failed"
              THEN Mutated(Overwritten(swr, "document", Head(r.old)), InUse("document")) ELSE swr
    /\ HeardOf(r, TRUE)
    /\ UNCHANGED <<page, auth, form, older>>

\* A failure puts the old title back; in any case it is fetched again.
RenameAnswered(r) ==
    /\ Taken(r, "rename") /\ Settle(r)
    /\ swr' = Mutated(IF r.phase = "failed" THEN Overwritten(swr, "document", Head(r.old)) ELSE swr,
                      InUse("document"))
    /\ HeardOf(r, TRUE)
    /\ UNCHANGED <<page, auth, form, older>>

ShareAnswered(r) ==
    /\ Taken(r, "share") /\ Settle(r)
    /\ form' = IF form.modal THEN [form EXCEPT !.loading = FALSE] ELSE form
    /\ swr' = IF r.phase = "done" THEN Mutated(swr, InUse("shareTokens")) ELSE swr
    /\ HeardOf(r, r.phase = "done")
    /\ UNCHANGED <<page, auth, older>>

UnshareAnswered(r) ==
    /\ Taken(r, "unshare") /\ Settle(r)
    /\ swr' = Mutated(swr, InUse("shareTokens"))
    /\ HeardOf(r, TRUE)
    /\ UNCHANGED <<page, auth, form, older>>

DeleteAnswered(r) ==
    /\ Taken(r, "delete") /\ Settle(r)
    /\ swr' = IF r.phase = "done" THEN Mutated(swr, InUse("documents")) ELSE swr
    /\ HeardOf(r, r.phase = "done")
    /\ UNCHANGED <<page, auth, form, older>>

\* The gallery is fetched when it appears, unless an older fetch is under way.
CreateAnswered(r) ==
    /\ Taken(r, "create") /\ Settle(r)
    /\ IF r.phase = "done"
       THEN Goto("home", swr)
       ELSE /\ form' = IF page = "new" THEN [form EXCEPT !.loading = FALSE] ELSE form
            /\ UNCHANGED <<page, swr>>
    /\ HeardOf(r, FALSE)
    /\ UNCHANGED <<auth, older>>

----------------------------------------------------------------------------
WebNext ==
    \/ \E k \in Keys : Read(k) \/ Deliver(k) \/ Refetch(k)
    \/ FetchFails \/ OlderEnds \/ Redirect \/ FollowLink
    \/ SessionExpires
    \/ Login \/ UserMenu \/ EditTitle
    \/ \E title \in NewTitles : SubmitTitle(title)
    \/ ToggleShareModal \/ SubmitShare
    \/ \E link \in ShareLinks : DeleteLink(link)
    \/ \E doc \in Gallery \cup {"new"} : DeleteDocument(doc)
    \/ SubmitNew
    \/ \E r \in asked :
          \/ Serve(r) \/ RequestFails(r)
          \/ LoginAnswered(r) \/ LogoutAnswered(r) \/ ChangePasswordAnswered(r)
          \/ RenameAnswered(r) \/ ShareAnswered(r) \/ UnshareAnswered(r)
          \/ DeleteAnswered(r) \/ CreateAnswered(r)

WebSpec == WebInit /\ [][WebNext]_webVars

----------------------------------------------------------------------------
(* Properties.                                                             *)

\* As soon as nothing is under way, what the page shows is what the backend has:
\* renames may fail, be lost or overtake each other, fetches may answer late.
\* Left out are the changes after which the code fetches nothing itself: a link
\* or a deletion whose answer was lost, a new document, and what is answered when
\* the component is gone.
QuietPagesAreCurrent ==
    \A k \in Mounted(page, form) \ {"me"} :
        asked = {} /\ swr[k].fetch = "idle" /\ swr[k].data # NoData /\ k \notin unheard =>
            CASE k = "document" -> Head(swr[k].data).name = server.title
              [] k = "shareTokens" -> Head(swr[k].data) = server.links
              [] k = "documents" -> Head(swr[k].data) = server.documents

\* Who has signed in is sent back to the login page only after a fetch of "me" has
\* failed: the last one, or, whose error counts too, one that the login superseded.
\* No answer does it, however old it is and however late it comes.
SignedInIsNotSentToLogin ==
    [][(page \in Private /\ page' \in {"login", "away"} /\ used' = used) =>
          \/ auth \notin server.sessions
          \/ swr["me"].fetch = "failed"
          \/ UnderWay /\ older.failed]_webVars

=============================================================================
