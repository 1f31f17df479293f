----------------------------- MODULE AccountForms -----------------------------
(***************************************************************************)
(* The pages of somebody without a session: registration in three steps,   *)
(* sign-in, the dialog that sends a verification link again, forgotten and *)
(* new passwords, the links in the mails, and the ways back from Google;   *)
(* with the accounts and one-time links of the auth service behind them.   *)
(***************************************************************************)
EXTENDS Integers, Sequences

CONSTANTS
  Email,
  MaxLinks,   \* bound on the links and codes issued
  MaxPosts,   \* bound on the forms sent
  MaxMoves,   \* bound on pages visited, links opened and edits
  MaxOutages  \* bound on links that expire and answers that are lost

VARIABLES
  account,  \* of every address: "none", "unverified" or "verified"
  links,    \* one-time links, codes and signup sessions, in the order issued
  place,    \* the page, and the link in its address, 0 if there is none
  form,     \* the state of the page's form
  post,     \* the request the page waits for: isSubmitting
  orphans,  \* requests of pages that were left
  modal,    \* EmailVerificationModal
  promise,  \* verificationCache and codePromiseMap
  spends,   \* history: how often this page load presented each link
  did       \* history: how much of each bound is used up

vars == <<account, links, place, form, post, orphans, modal, promise,
                 spends, did>>

NoPost == [kind |-> "none", email |-> "", link |-> 0, answer |-> "none"]
NoModal == [open |-> FALSE, email |-> "", request |-> NoPost, cooldown |-> FALSE]
Fresh(e) == [step |-> 1, valid |-> {}, email |-> e, outcome |-> "none"]
At(page) == place.page = page
NoPromises == [i \in 1..MaxLinks |-> "none"]
Did(kind, limit) == did[kind] < limit /\ did' = [did EXCEPT ![kind] = @ + 1]

-----------------------------------------------------------------------------
(* The auth service.                                                       *)

\* A new link of one kind ends the older ones of its account; a code or a
\* signup session of Google does not.
Ended(link, e, kind) ==
  link.email = e /\ link.kind = kind /\ kind \in {"verify", "reset"} /\ link.state = "valid"
Issue(e, kind) ==
  /\ Len(links) < MaxLinks
  /\ links' = Append([i \in DOMAIN links |->
                        IF Ended(links[i], e, kind) THEN [links[i] EXCEPT !.state = "expired"]
                                                    ELSE links[i]],
                     [email |-> e, kind |-> kind, state |-> "valid"])

Register(e, answer) ==
  IF account[e] = "none"
  THEN /\ answer = "ok" /\ account' = [account EXCEPT ![e] = "unverified"]
       /\ Issue(e, "verify")
  ELSE answer = "exists" /\ UNCHANGED <<account, links>>

\* The right password of an account that is not verified sends a new link.
Login(e, answer) ==
  /\ UNCHANGED account
  /\ \/ answer = "invalid" /\ UNCHANGED links
     \/ account[e] = "unverified" /\ answer = "unverified" /\ Issue(e, "verify")
     \/ account[e] = "verified" /\ answer = "ok" /\ UNCHANGED links

Resend(e, answer) ==
  /\ answer = "ok" /\ UNCHANGED account
  /\ IF account[e] = "unverified" THEN Issue(e, "verify") ELSE UNCHANGED links

Forgot(e, answer) ==
  /\ answer = "ok" /\ UNCHANGED account
  /\ IF account[e] # "none" THEN Issue(e, "reset") ELSE UNCHANGED links

\* verify_email_token, reset_password, consume_google_login_session and
\* complete_google_signup look at their row alike.
Redeem(i, answer) ==
  LET e == links[i].email
  IN \/ /\ links[i].state = "valid" /\ answer = "ok"
        /\ links[i].kind = "signup" => account[e] = "none"
        /\ links' = [links EXCEPT ![i].state = "used"]
        /\ account' = IF links[i].kind \in {"verify", "signup"}
                      THEN [account EXCEPT ![e] = "verified"] ELSE account
     \/ /\ links[i].state = "valid" /\ links[i].kind = "signup" /\ account[e] # "none"
        /\ answer = "exists" /\ UNCHANGED <<account, links>>
     \/ links[i].state # "valid" /\ answer = links[i].state /\ UNCHANGED <<account, links>>

Answer == {"ok", "exists", "invalid", "unverified", "used", "expired"}
Serve(request, answer) ==
  \/ request.kind = "register" /\ Register(request.email, answer)
  \/ request.kind = "login" /\ Login(request.email, answer)
  \/ request.kind = "forgot" /\ Forgot(request.email, answer)
  \/ request.kind = "resend" /\ Resend(request.email, answer)
  \/ request.kind \in {"reset", "complete"} /\ Redeem(request.link, answer)
  \/ request.kind = "me" /\ answer = "ok" /\ UNCHANGED <<account, links>>

PostHandled ==
  /\ post.answer = "none"
  /\ \E answer \in Answer :
       Serve(post, answer) /\ post' = [post EXCEPT !.answer = answer]
  /\ UNCHANGED <<place, form, orphans, modal, promise, spends, did>>

OrphanHandled ==
  /\ \E request \in orphans, answer \in Answer :
       /\ request.answer = "none" /\ Serve(request, answer)
       /\ orphans' = (orphans \ {request}) \cup {[request EXCEPT !.answer = answer]}
  /\ UNCHANGED <<place, form, post, modal, promise, spends, did>>

LinkExpires(i) ==
  /\ links[i].state = "valid" /\ Did("outages", MaxOutages)
  /\ links' = [links EXCEPT ![i].state = "expired"]
  /\ UNCHANGED <<account, place, form, post, orphans, modal, promise, spends>>

-----------------------------------------------------------------------------
(* Pages, the links between them, and what a page does when it mounts.     *)

Goto(page, i) ==
  /\ place' = [page |-> page, link |-> i, back |-> <<place.page, place.link>>]
  /\ form' = Fresh(form.email) /\ post' = NoPost /\ modal' = NoModal

\* A link is presented once in a page load, however often its page is mounted.
\* Mutant: every mount presents it.
PresentEachTime(i) ==
  /\ promise' = [promise EXCEPT ![i] = "sent"]
  /\ spends' = [spends EXCEPT ![i] = @ + 1]
Present(i) ==
  IF promise[i] = "none"
  THEN promise' = [promise EXCEPT ![i] = "sent"] /\ spends' = [spends EXCEPT ![i] = @ + 1]
  ELSE UNCHANGED <<promise, spends>>
Exchange(i) == Present(i)

Left == orphans \cup ({post, modal.request} \ {NoPost})

\* The links that a page has besides its form.
ResetEnded == At("reset") /\ form.outcome \in {"ok", "used", "expired"}
ForgotEnded == At("forgot") /\ form.outcome = "ok"
VerifyLinks == CASE form.outcome = "none" -> {}
                 [] form.outcome = "ok" -> {"login"}
                 [] OTHER -> {"login", "register"}
CallbackLinks == IF form.outcome = "none" THEN {} ELSE {"login"}
ResetLinks == IF form.outcome \in {"used", "expired"} THEN {"forgot", "login"} ELSE {"login"}
Onward ==
  CASE At("login") -> {"register", "forgot"}
    [] At("verify") -> VerifyLinks
    [] At("callback") -> CallbackLinks
    [] At("reset") -> ResetLinks
    [] OTHER -> {"login"}
Visit(page) ==
  /\ ~At("dashboard") /\ page \in Onward /\ Did("moves", MaxMoves)
  /\ Goto(page, 0) /\ orphans' = Left
  /\ UNCHANGED <<account, links, promise, spends>>

\* The button of the browser: the page of a link mounts again.
Back ==
  /\ place.back[2] # 0 /\ ~At("dashboard") /\ Did("moves", MaxMoves)
  /\ Goto(place.back[1], place.back[2]) /\ orphans' = Left
  /\ CASE place.back[1] = "verify" -> Present(place.back[2])
       [] place.back[1] = "callback" -> Exchange(place.back[2])
       [] OTHER -> UNCHANGED <<promise, spends>>
  /\ UNCHANGED <<account, links>>

PageOf(kind) ==
  CASE kind = "verify" -> "verify" [] kind = "reset" -> "reset"
    [] kind = "code" -> "callback" [] kind = "signup" -> "setup"

\* A link of a mail, or the redirection from Google, loads its page anew.
Arrive(i) ==
  /\ place' = [page |-> PageOf(links'[i].kind), link |-> i, back |-> <<"none", 0>>]
  /\ form' = Fresh(form.email) /\ post' = NoPost /\ modal' = NoModal /\ orphans' = {}
  /\ IF links'[i].kind \in {"verify", "code"}
     THEN /\ promise' = [NoPromises EXCEPT ![i] = "sent"]
          /\ spends' = [k \in 1..MaxLinks |-> IF k = i THEN 1 ELSE 0]
     ELSE promise' = NoPromises /\ spends' = [k \in 1..MaxLinks |-> 0]

OpenLink(i) ==
  /\ links[i].kind \in {"verify", "reset"} /\ Did("moves", MaxMoves)
  /\ UNCHANGED <<account, links>> /\ Arrive(i)

\* The sign-in page disables the button while it waits, the registration does
\* not.
GoogleButton == At("login") /\ post = NoPost
SignUpWithGoogle == At("register") /\ form.step = 1
ContinueWithGoogle(e) ==
  /\ GoogleButton \/ SignUpWithGoogle
  /\ Did("posts", MaxPosts)
  /\ Issue(e, IF account[e] = "none" THEN "signup" ELSE "code")
  /\ Arrive(Len(links')) /\ UNCHANGED account

-----------------------------------------------------------------------------
(* Forms.  A field counts as valid or not; the steps of the registration   *)
(* are the only ones.                                                      *)

Personal == At("register") /\ form.step = 1
WorkspaceStep == At("register") /\ form.step = 2
PasswordStep == At("register") /\ form.step = 3
ForgotForm == At("forgot") /\ ~ForgotEnded
ResetForm == At("reset") /\ ~ResetEnded
SetupForm == At("setup")
LoginForm == At("login")

Fields ==
  CASE Personal -> {"name"} [] WorkspaceStep -> {"workspace"}
    [] PasswordStep -> {"password", "confirm"} [] ResetForm -> {"password", "confirm"}
    [] SetupForm -> {"workspace"} [] LoginForm -> {"password"} [] OTHER -> {}
AllFields == IF At("register") THEN {"name", "workspace", "password", "confirm"} ELSE Fields

\* The fields are disabled while the form is sent.
Editable ==
  /\ Personal \/ WorkspaceStep \/ PasswordStep \/ ForgotForm \/ ResetForm \/ SetupForm
     \/ LoginForm
  /\ post = NoPost /\ ~modal.open
\* Mutant: the address can be changed while its request is under way.
TypeEmailAnyTime(e) ==
  /\ ~modal.open
  /\ Personal \/ LoginForm \/ ForgotForm
  /\ e # form.email /\ Did("moves", MaxMoves)
  /\ form' = [form EXCEPT !.email = e, !.outcome = "none"]
  /\ UNCHANGED <<account, links, place, post, orphans, modal, promise, spends>>

\* handleChange: an edit clears the message and the link to the dialog.
TypeEmail(e) ==
  /\ Editable
  /\ Personal \/ LoginForm \/ ForgotForm
  /\ e # form.email /\ Did("moves", MaxMoves)
  /\ form' = [form EXCEPT !.email = e, !.outcome = "none"]
  /\ UNCHANGED <<account, links, place, post, orphans, modal, promise, spends>>

\* Another password is not the confirmed one.
Fill(field) ==
  /\ Editable /\ field \in Fields
  /\ form' = [form EXCEPT !.outcome = "none",
        !.valid = IF field \in @ THEN @ \ {field}
                  ELSE IF field = "password" THEN (@ \ {"confirm"}) \cup {field}
                  ELSE @ \cup {field}]
  /\ UNCHANGED <<account, links, place, post, orphans, modal, promise, spends, did>>

NextStep ==
  /\ Editable
  /\ Personal \/ WorkspaceStep
  /\ Fields \subseteq form.valid
  /\ form' = [form EXCEPT !.step = @ + 1]
  /\ UNCHANGED <<account, links, place, post, orphans, modal, promise, spends, did>>
BackStep ==
  /\ Editable
  /\ WorkspaceStep \/ PasswordStep
  /\ form' = [form EXCEPT !.step = @ - 1]
  /\ UNCHANGED <<account, links, place, post, orphans, modal, promise, spends, did>>

Request(kind) ==
  [kind |-> kind, email |-> form.email, link |-> place.link, answer |-> "none"]
Send(kind) ==
  /\ Editable /\ AllFields \subseteq form.valid /\ Did("posts", MaxPosts)
  /\ post' = Request(kind) /\ form' = [form EXCEPT !.outcome = "none"]
  /\ UNCHANGED <<account, links, place, orphans, modal, promise, spends>>
Submit ==
  \/ PasswordStep /\ Send("register")
  \/ LoginForm /\ Send("login")
  \/ ForgotForm /\ Send("forgot")
  \/ ResetForm /\ Send("reset")
  \/ SetupForm /\ Send("complete")

\* login(): the user behind the new session; then the dashboard, which ends
\* what these pages do.
SignsIn(request) == request.answer = "ok" /\ request.kind \in {"login", "complete"}
ToDashboard ==
  /\ place' = [page |-> "dashboard", link |-> 0, back |-> <<"none", 0>>]
  /\ form' = Fresh(form.email) /\ modal' = NoModal /\ orphans' = {}

Answered(kind) == post.kind = kind /\ post.answer # "none"
Shows(outcome) ==
  /\ form' = [form EXCEPT !.outcome = outcome] /\ post' = NoPost
  /\ UNCHANGED <<account, links, place, orphans, promise, spends, did>>
GoesOn ==
  /\ post' = Request("me")
  /\ UNCHANGED <<account, links, place, form, orphans, modal, promise, spends, did>>

\* A new account opens the dialog, a known address leads back to the first step.
RegisterAnswered ==
  /\ Answered("register") /\ post' = NoPost
  /\ IF post.answer = "ok"
     THEN modal' = [modal EXCEPT !.open = TRUE, !.email = form.email] /\ UNCHANGED form
     ELSE form' = [form EXCEPT !.outcome = "exists", !.step = 1] /\ UNCHANGED modal
  /\ UNCHANGED <<account, links, place, orphans, promise, spends, did>>
LoginAnswered ==
  /\ Answered("login")
  /\ IF post.answer = "ok" THEN GoesOn
     ELSE /\ Shows(post.answer)
          /\ modal' = [modal EXCEPT !.email = IF post.answer = "unverified" THEN form.email ELSE @]
ForgotAnswered == Answered("forgot") /\ Shows("ok") /\ UNCHANGED modal
ResetAnswered == Answered("reset") /\ Shows(post.answer) /\ UNCHANGED modal
SetupAnswered ==
  /\ Answered("complete")
  /\ IF post.answer = "ok" THEN GoesOn ELSE Shows(post.answer) /\ UNCHANGED modal
UserAnswered ==
  /\ Answered("me") /\ ToDashboard /\ post' = NoPost
  /\ UNCHANGED <<account, links, promise, spends, did>>

PostAnswered ==
  \/ RegisterAnswered \/ LoginAnswered \/ ForgotAnswered \/ ResetAnswered
  \/ SetupAnswered \/ UserAnswered

\* No answer, served or not: the form stays and may be sent again.
PostFails ==
  /\ post # NoPost /\ Did("outages", MaxOutages)
  /\ form' = [form EXCEPT !.outcome = "failed"] /\ post' = NoPost
  /\ UNCHANGED <<account, links, place, orphans, modal, promise, spends>>

\* A sign-in whose page was left goes on all the same.
OrphanAnswered ==
  \E request \in orphans :
    /\ request.answer # "none"
    /\ IF SignsIn(request)
       THEN /\ orphans' = (orphans \ {request})
                            \cup {[request EXCEPT !.kind = "me", !.answer = "none"]}
            /\ UNCHANGED <<place, form, modal, post>>
       ELSE IF request.kind = "me" THEN ToDashboard /\ post' = NoPost
       ELSE orphans' = orphans \ {request} /\ UNCHANGED <<place, form, modal, post>>
    /\ UNCHANGED <<account, links, promise, spends, did>>

-----------------------------------------------------------------------------
(* The links: verifyEmailOnce and getExchangePromise.                      *)

PromiseHandled(i) ==
  /\ promise[i] = "sent"
  /\ \E answer \in Answer : Redeem(i, answer) /\ promise' = [promise EXCEPT ![i] = answer]
  /\ UNCHANGED <<place, form, post, orphans, modal, spends, did>>
PromiseFails(i) ==
  /\ promise[i] # "none" /\ promise[i] # "failed" /\ Did("outages", MaxOutages)
  /\ place.link = i /\ form.outcome = "none" /\ post = NoPost
  /\ promise' = [promise EXCEPT ![i] = "failed"]
  /\ UNCHANGED <<account, links, place, form, post, orphans, modal, spends>>

\* The page shows how it ended, also to those who come back; a code that was
\* exchanged goes on with login().
LinkAnswered ==
  /\ At("verify") \/ At("callback")
  /\ form.outcome = "none" /\ post = NoPost
  /\ promise[place.link] \notin {"none", "sent"}
  /\ IF At("callback") /\ promise[place.link] = "ok"
     THEN post' = Request("me") /\ UNCHANGED form
     ELSE form' = [form EXCEPT !.outcome = promise[place.link]] /\ UNCHANGED post
  /\ UNCHANGED <<account, links, place, orphans, modal, promise, spends, did>>

-----------------------------------------------------------------------------
(* EmailVerificationModal, which keeps its state while it is closed.       *)

OpenModal ==
  /\ LoginForm /\ form.outcome = "unverified" /\ ~modal.open /\ post = NoPost
  /\ modal' = [modal EXCEPT !.open = TRUE]
  /\ UNCHANGED <<account, links, place, form, post, orphans, promise, spends, did>>
CloseModal ==
  /\ modal.open /\ modal' = [modal EXCEPT !.open = FALSE]
  /\ UNCHANGED <<account, links, place, form, post, orphans, promise, spends, did>>
ResendLink ==
  /\ modal.open /\ modal.request = NoPost /\ ~modal.cooldown /\ Did("posts", MaxPosts)
  /\ modal' = [modal EXCEPT !.request = [Request("resend") EXCEPT !.email = modal.email]]
  /\ UNCHANGED <<account, links, place, form, post, orphans, promise, spends>>
ResendHandled ==
  /\ modal.request.kind = "resend" /\ modal.request.answer = "none"
  /\ \E answer \in Answer : /\ Resend(modal.request.email, answer)
                            /\ modal' = [modal EXCEPT !.request.answer = answer]
  /\ UNCHANGED <<place, form, post, orphans, promise, spends, did>>
ResendAnswered ==
  /\ modal.request.answer # "none"
  /\ modal' = [modal EXCEPT !.request = NoPost, !.cooldown = TRUE]
  /\ UNCHANGED <<account, links, place, form, post, orphans, promise, spends, did>>
ResendFails ==
  /\ modal.request # NoPost /\ Did("outages", MaxOutages)
  /\ modal' = [modal EXCEPT !.request = NoPost]
  /\ UNCHANGED <<account, links, place, form, post, orphans, promise, spends>>
CooldownEnds ==
  /\ modal.cooldown /\ modal' = [modal EXCEPT !.cooldown = FALSE]
  /\ UNCHANGED <<account, links, place, form, post, orphans, promise, spends, did>>

-----------------------------------------------------------------------------
Init ==
  /\ account = [e \in Email |-> "none"] /\ links = <<>>
  /\ place = [page |-> "login", link |-> 0, back |-> <<"none", 0>>]
  /\ form = Fresh(CHOOSE e \in Email : TRUE)
  /\ post = NoPost /\ orphans = {} /\ modal = NoModal
  /\ promise = NoPromises /\ spends = [i \in 1..MaxLinks |-> 0]
  /\ did = [k \in {"posts", "moves", "outages"} |-> 0]

Next ==
  \/ PostHandled \/ OrphanHandled \/ PostAnswered \/ PostFails \/ OrphanAnswered
  \/ LinkAnswered \/ Back \/ NextStep \/ BackStep \/ Submit
  \/ OpenModal \/ CloseModal \/ ResendLink \/ ResendHandled \/ ResendAnswered
  \/ ResendFails \/ CooldownEnds
  \/ \E page \in {"login", "register", "forgot"} : Visit(page)
  \/ \E field \in {"name", "workspace", "password", "confirm"} : Fill(field)
  \/ \E e \in Email : ContinueWithGoogle(e) \/ TypeEmail(e)
  \/ \E i \in DOMAIN links :
       LinkExpires(i) \/ OpenLink(i) \/ PromiseHandled(i) \/ PromiseFails(i)

-----------------------------------------------------------------------------
LinkRow == [email : Email, kind : {"verify", "reset", "code", "signup"},
            state : {"valid", "used", "expired"}]
Page == {"login", "register", "forgot", "verify", "reset", "callback", "setup", "dashboard"}
Place == [page : Page, link : Nat, back : (Page \X Nat) \cup {<<"none", 0>>}]
Form == [step : Int, valid : SUBSET {"name", "workspace", "password", "confirm"},
         email : Email, outcome : Answer \cup {"none", "failed"}]
Query == [kind : {"none", "register", "login", "forgot", "resend", "reset", "complete", "me"},
          email : Email \cup {""}, link : Nat, answer : Answer \cup {"none"}]
Modal == [open : BOOLEAN, email : Email \cup {""}, request : Query, cooldown : BOOLEAN]
TypeOK ==
  /\ account \in [Email -> {"none", "unverified", "verified"}]
  /\ links \in Seq(LinkRow) /\ Len(links) <= MaxLinks
  /\ place \in Place /\ form \in Form /\ post \in Query /\ orphans \subseteq Query
  /\ modal \in Modal
  /\ promise \in [1..MaxLinks -> {"none", "sent", "failed", "ok", "used", "expired"}]
  /\ spends \in [1..MaxLinks -> Nat] /\ did \in [{"posts", "moves", "outages"} -> Int]

\* A page with a link has one of its kind, and so has a request that redeems it.
OfPage(page, i) ==
  page \in {"verify", "reset", "callback", "setup"} =>
    i \in DOMAIN links /\ PageOf(links[i].kind) = page
Fits(request) ==
  /\ request.kind # "none" => request.email \in Email
  /\ request.kind = "reset" => OfPage("reset", request.link)
  /\ request.kind = "complete" => OfPage("setup", request.link)
LinksFit ==
  /\ OfPage(place.page, place.link) /\ OfPage(place.back[1], place.back[2])
  /\ \A i \in 1..MaxLinks : promise[i] # "none" =>
       i \in DOMAIN links /\ links[i].kind \in {"verify", "code"}
  /\ \A request \in orphans \cup {post, modal.request} : Fits(request)

\* What is under way was sent by the form that is shown.
PostFits ==
  /\ post.kind # "resend" /\ modal.request.kind \in {"none", "resend"}
  /\ post.kind \in {"register", "login", "forgot", "reset"} => place.page = post.kind
  /\ post.kind = "complete" => place.page = "setup"
  /\ post.kind \in {"register", "login"} => post.email = form.email
  /\ post.kind = "reset" => post.link = place.link

\* An answer that is on its way is true.
HasLink(e) == \E i \in DOMAIN links : links[i].email = e /\ links[i].kind = "verify"
LinksTold ==
  /\ \A i \in DOMAIN links : links[i].kind = "verify" /\ links[i].state = "used" =>
       account[links[i].email] = "verified"
  /\ \A i \in DOMAIN links : promise[i] \in {"ok", "used"} => links[i].state = "used"
AnswersTold ==
  /\ post.kind = "register" /\ post.answer # "none" =>
       account[post.email] # "none" /\ (post.answer = "ok" => HasLink(post.email))
  /\ post.kind = "login" => post.answer # "exists"
  /\ post.kind = "login" /\ post.answer = "unverified" =>
       account[post.email] # "none" /\ HasLink(post.email)
  /\ post.kind = "reset" => post.answer \in {"none", "ok", "used", "expired"}
  /\ post.kind = "reset" /\ post.answer \in {"ok", "used"} => links[post.link].state = "used"
  /\ place.page = "login" /\ form.outcome = "unverified" => HasLink(modal.email)

\* A link that was presented has a promise.
PresentedPromised == \A i \in 1..MaxLinks : promise[i] = "none" => spends[i] = 0

\* What a page says is true of the account it says it about: a link that worked
\* or was used has done its work, the address that is taken or not verified has
\* an account, and the dialog is about an address that was sent a link.
OutcomeIsTrue ==
  /\ place.page \in {"verify", "reset"} /\ form.outcome \in {"ok", "used"} =>
       /\ links[place.link].state = "used"
       /\ place.page = "verify" => account[links[place.link].email] = "verified"
  /\ form.outcome \in {"exists", "unverified"} /\ place.page # "setup" =>
       account[form.email] # "none"
  /\ modal.open => \E i \in DOMAIN links : links[i].email = modal.email
                                           /\ links[i].kind = "verify"

\* A link or a code that can be used once is presented once, however often its
\* page mounts, until the page is loaded anew.
LinkPresentedOnce == \A i \in DOMAIN spends : spends[i] <= 1

=============================================================================
