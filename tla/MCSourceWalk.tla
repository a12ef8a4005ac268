----------------------------- MODULE MCSourceWalk ------------------------------
(* Each source has the shape in which its adapter's walk can go wrong most ways: *)
(* items in one place, on two pages, where pages are counted or the order may     *)
(* change; otherwise in two places, with a bound of one page where there is one.  *)
EXTENDS SourceWalk

Deep == {"servicenow", "box", "mattermost", "salesforce", "slack"}

MCNumPlaces == [s \in Sources |-> IF s \in Deep THEN 1 ELSE 2]
MCCap == [s \in Sources |-> IF s \in Deep THEN 2 ELSE 1]
================================================================================
