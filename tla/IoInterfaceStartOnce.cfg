\* A repeated start_io through a valid handle onto io_handler_mock.
CONSTANTS
    N = 2
    MaxSet = 3
SPECIFICATION Spec
PROPERTY StartIoFirstOnly
CHECK_DEADLOCK FALSE
