\* Two identities and two signatories, the defaults among them; two auth ids.
CONSTANTS
    zeroDid = zeroDid
    d1 = d1
    zeroSig = zeroSig
    k1 = k1
    NoValue = NoValue
    Dids <- MCDids
    Signatories <- MCSignatories
    AuthIds = {0, 1}
    DefaultDid = zeroDid
    DefaultSignatory = zeroSig
    Checked = FALSE
SPECIFICATION Spec
INVARIANT GivenAnswerCorrect
