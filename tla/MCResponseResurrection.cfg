SPECIFICATION Spec
CONSTANTS
    Procs = {p1, p2}
    Analysts = {ann}
    NoAnalyst = NoAnalyst
    Targets <- Public
    Triages <- OneTriage
    Playbooks <- OnlyPF
    PlaybookOrder <- OnlyPFOrder
    PlaybookAction <- MCPlaybookAction
    Trigger <- MCTrigger
    Required <- MCRequired
    Score <- MCScore
    PublicTargets <- Public
    IPTargets <- Public
    AgentTargets <- NoTargets
    Verdicts <- MCVerdicts
    Faults <- NoFaults
PROPERTY
    NoResurrection
