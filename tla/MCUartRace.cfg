CONSTANTS
    MaxBufferSize = 6
    UART_RX_BUF_SIZE = 3
    ByteModulus = 6
    TextLengths = {2, 3}
SPECIFICATION Spec
INVARIANT SendingWasStarted
