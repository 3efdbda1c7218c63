SPECIFICATION Spec
CONSTANTS
    Adapters = {"openai", "mistral", "anthropic", "gemini", "cohere"}
    Answers <- MCAnswers
    Framings = {"lf", "crlf", "named"}
    PromptGuess = 3
    ReadSizes = {1, 2, 7}
INVARIANTS StreamMatchesWhole BookedExactly BlameIsRight
PROPERTIES ImplementsProtocol TimeoutBounds
