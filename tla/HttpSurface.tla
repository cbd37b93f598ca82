----------------------------- MODULE HttpSurface -----------------------------
(***************************************************************************)
(* The routes of the user service that the web client calls: the           *)
(* middlewares of each, in the order of routes/auth.routes.ts and          *)
(* routes/user.routes.ts, and which of them answers a request first.       *)
(*                                                                         *)
(* A limiter counts the requests of everybody behind an address and a      *)
(* schema looks at the body: which of the two refuse is the caller's       *)
(* choice here (refusing).  The CSRF cookie and header are those of the jar*)
(* the request left with (csrf), authenticate is told in who.              *)
(***************************************************************************)
EXTENDS Naturals, Sequences, FiniteSetsExt

Route == [
  register |-> <<"global", "auth", "body">>,
  verify   |-> <<"global", "auth", "body">>,
  login    |-> <<"global", "auth", "body">>,
  resend   |-> <<"global", "sensitive", "body">>,
  email    |-> <<"global", "sensitive", "body">>,
  request  |-> <<"global", "sensitive", "body">>,
  confirm  |-> <<"global", "sensitive", "body">>,
  refresh  |-> <<"global", "standard", "csrf">>,
  logout   |-> <<"global", "standard", "csrf", "authenticate">>,
  me       |-> <<"global", "authenticate">>,
  update   |-> <<"global", "authenticate", "csrf", "body">>,
  delete   |-> <<"global", "authenticate", "csrf">>]

Limiters == {"global", "auth", "sensitive", "standard"}

(* The status a middleware refuses with. *)
StatusOf(guard) ==
  CASE guard \in Limiters -> 429
    [] guard = "csrf" -> 403
    [] guard = "authenticate" -> 401
    [] guard = "body" -> 400

(* The places of the middlewares of kind that refuse; the first of them    *)
(* answers, and the handler is reached when there is none.                 *)
Stops(kind, csrf, authentic, refusing) ==
  {i \in DOMAIN Route[kind] : \/ Route[kind][i] \in refusing
                              \/ Route[kind][i] = "csrf" /\ ~csrf
                              \/ Route[kind][i] = "authenticate" /\ ~authentic}

Reached(kind, csrf, authentic, refusing) == Stops(kind, csrf, authentic, refusing) = {}

Refusal(kind, csrf, authentic, refusing) == StatusOf(Route[kind][Min(Stops(kind, csrf, authentic, refusing))])
=============================================================================
