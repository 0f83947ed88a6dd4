------------------------------- MODULE Filters ------------------------------
(***************************************************************************)
(* What the rules of mkPuppetmaster rely on: two Bloom filters, each a set *)
(* of bits, to which fingerprints are added in one step, of which one is   *)
(* checked, and which are exchanged in one step by a refresh.              *)
(***************************************************************************)
CONSTANTS Fingerprints,     \* the fingerprints that are added or checked
          LocBits(_)        \* the bits of a set of objects

VARIABLES
  main, shadow,     \* the bits that are set
  asked,            \* the fingerprint being checked, if any: at most one
  answer            \* the answer to the last check

fvars == <<main, shadow, asked, answer>>

\* No object of t has all its bits set.
Compatible(t, filter) == \A loc \in t : ~ LocBits({loc}) \subseteq filter

FInit == main = {} /\ shadow = {} /\ asked = {} /\ answer \in BOOLEAN

Add == /\ asked = {}
       /\ \E t \in Fingerprints : main' = main \cup LocBits(t)
       /\ UNCHANGED <<asked, answer>>

Check == /\ asked = {}
         /\ \E t \in Fingerprints : asked' = {t}
         /\ UNCHANGED <<main, answer>>

Answer == /\ \E t \in asked : answer' = Compatible(t, main)
          /\ asked' = {}
          /\ UNCHANGED main

AddShadow == \E t \in Fingerprints : shadow' = shadow \cup LocBits(t)

Refresh == /\ asked = {}
           /\ main' = shadow /\ shadow' = {}
           /\ UNCHANGED <<asked, answer>>

\* The two filters work side by side.
MainNext   == Add \/ Check \/ Answer \/ UNCHANGED <<main, asked, answer>>
ShadowNext == AddShadow \/ UNCHANGED shadow

FNext == Refresh \/ (MainNext /\ ShadowNext)

FSpec == FInit /\ [][FNext]_fvars
=============================================================================
