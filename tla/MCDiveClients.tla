--------------------------- MODULE MCDiveClients ---------------------------
EXTENDS DiveClients

MCPorts == <<"forward0", "forward1">>

MCOriginals == {{}}

\* Every kind of replay but GpuTiming, which is Normal with one more command; both
\* options at once; and a combination that is refused.
MCReplays ==
    {[NoReplay EXCEPT !.run = n] : n \in ReplayRuns \ {"GpuTiming"}}
        \cup {[NoReplay EXCEPT !.debugger = TRUE, !.validation = TRUE],
              [NoReplay EXCEPT !.run = "RenderDoc", !.validation = TRUE]}
============================================================================
