SPECIFICATION Spec
CONSTANTS
    Envelopes <- MCEnvelopes
    SchemaKeys <- MCSchemaKeys
    LegalChars <- MCLetters
    MaxFieldBytes = 2
    MaxPayloadBytes <- MCMaxPayload
    Units <- MCUnits
PROPERTIES ArrivesAsSent DamageIsRefused AcceptedCanBeRelayed
