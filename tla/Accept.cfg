SPECIFICATION Spec
CONSTANTS
    Texts <- MCTexts
    Digests <- MCDigests
    Accepts <- MCAccepts
INVARIANTS
    Sha1Exact
    Base64Exact
    AcceptExact
    PortExact
    KnownAnswers
