------------------------------ MODULE MCService ------------------------------
(***************************************************************************)
(* The parts around the answers that share no state with each other, in    *)
(* one run: each behaviour is one part's, the others rest in one of their  *)
(* initial states.                                                         *)
(***************************************************************************)
EXTENDS Server, Records, Settings, Completion, Lines, Wire, Processes, Catalogue, Lookups, Pools

CONSTANTS q1, q2, a1, a2, d1, A, B, x, y, q, s1, r1, e1, e2

VARIABLE part

vars == <<part, serverVars, recordVars, settingsVars, completionVars, lineVars, wireVars, processVars,
          catalogueVars, dnsVars, poolsVars>>

Parts == {"server", "records", "settings", "completion", "lines", "wire", "processes", "catalogue",
          "lookups", "pools"}

Init ==
    /\ part \in Parts
    /\ ServerInit /\ RecordInit
    /\ (part # "settings" => config = [llm |-> x, apiKey |-> None, server |-> None, token |-> None, adminKey |-> FALSE])
    /\ SettingsInit
    /\ (part # "completion" => request = [r \in Completions |-> NewRequest(FALSE)])
    /\ CompletionInit
    /\ (part # "lines" => stream = [of |-> "output", bytes |-> <<>>, at |-> 0, chunk |-> 0, ended |-> FALSE])
    /\ LinesInit
    /\ (part # "wire" => transport = "stdio")
    /\ WireInit
    /\ ProcessesInit
    /\ (part # "catalogue" => served = [t \in Tools |-> Absent] /\ allowed = {Plain})
    /\ CatalogueInit
    /\ (part # "lookups" => waitsForWorker = FALSE /\ needs = [a \in Asks |-> x])
    /\ LookupsInit
    /\ (part # "pools" => targetRow = x)
    /\ PoolsInit

\* All but one part's variables stay as they are.
Rests(one) ==
    /\ UNCHANGED part
    /\ one # "server" => UNCHANGED serverVars
    /\ one # "records" => UNCHANGED recordVars
    /\ one # "settings" => UNCHANGED settingsVars
    /\ one # "completion" => UNCHANGED completionVars
    /\ one # "lines" => UNCHANGED lineVars
    /\ one # "wire" => UNCHANGED wireVars
    /\ one # "processes" => UNCHANGED processVars
    /\ one # "catalogue" => UNCHANGED catalogueVars
    /\ one # "lookups" => UNCHANGED dnsVars
    /\ one # "pools" => UNCHANGED poolsVars

Next ==
    \/ part = "server" /\ ServerNext /\ Rests("server")
    \/ part = "records" /\ RecordNext /\ Rests("records")
    \/ part = "settings" /\ SettingsNext /\ Rests("settings")
    \/ part = "completion" /\ CompletionNext /\ Rests("completion")
    \/ part = "lines" /\ LinesNext /\ Rests("lines")
    \/ part = "wire" /\ WireNext /\ Rests("wire")
    \/ part = "processes" /\ ProcessesNext /\ Rests("processes")
    \/ part = "catalogue" /\ CatalogueNext /\ Rests("catalogue")
    \/ part = "lookups" /\ LookupsNext /\ Rests("lookups")
    \/ part = "pools" /\ PoolsNext /\ Rests("pools")

\* The limits of the shutdown; they are never enabled outside the server's part.
Spec == Init /\ [][Next]_vars /\ WF_serverVars(Limits) /\ WF_serverVars(HubCloses)
=============================================================================
