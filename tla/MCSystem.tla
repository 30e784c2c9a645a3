------------------------------ MODULE MCSystem -------------------------------
(* Small instances of SpeechSystem: two utterances of one text each, the    *)
(* first with an index after it, the second with one before it or none.     *)
EXTENDS SpeechSystem, TLC

CONSTANTS u1, u2, english, female

MCEventsOf == (u1 :> <<"text", "index">>) @@ (u2 :> <<"index", "text">>)
MCShortEventsOf == (u1 :> <<"text", "index">>) @@ (u2 :> <<"text">>)
MCText ==
  UNION {{<<g, u, i>> : g \in 1..MaxGen, i \in 1..Len(EventsOf[u])} :
           u \in Utterance}
MCGenOf == [t \in Text |-> t[1]]
MCLanguageOf == [t \in Text |-> english]
MCModelOf == [t \in Text |-> female]
==============================================================================
