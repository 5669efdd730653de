SPECIFICATION Spec
CONSTANTS
    Handle = {h1, h2}
    NoBytes = NoBytes
    NoEnvelope = NoEnvelope
    MaxVersion = 6
    MaxBatch = 2
    Envelope <- MCEnvelope
    Revision <- MCRevision
    Epoch <- MCEpoch
    Previous <- MCPrevious
    Admin <- MCAdmin
    Signer <- MCSigner
    Admins <- MCAdmins
    Recipient <- MCEnvelope
    Ticket <- MCTicket
SYMMETRY Symmetry
INVARIANTS
    TypeOK
    CheckpointWhole
    CurrentKnowsHead
    HistoryUnbroken
    ServedChainOpens
PROPERTIES
    ImplementsCheckpoint
    HeadOnlyAdvances
