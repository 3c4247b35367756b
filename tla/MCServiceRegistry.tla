-------------------------- MODULE MCServiceRegistry --------------------------
(***************************************************************************)
(* Instances of ServiceRegistry: services behind one or two URLs.          *)
(***************************************************************************)
EXTENDS ServiceRegistry

CONSTANTS A, B, C, add, prime, billing, odd

\* A calculation service, another one, and one with a name that makes no URL.
OwnUrls ==
  [s \in Services |-> CASE s = billing -> B [] s = odd -> C [] OTHER -> A]

\* Two endpoints of one calculation service.
OneUrl == [s \in Services |-> A]
=============================================================================
